---- MODULE Spec2Model ----
(***************************************************************************)
(* The Bitcask engine of hobbes (src/src/engine/bitcask.rs and             *)
(* src/src/engine/bitcask/compaction.rs): segment files on disk, the       *)
(* in-memory index, set / get / remove, replay on open and compaction.     *)
(*                                                                         *)
(* Every section of a handler that runs while the store mutex is held is   *)
(* one atomic action; the parts a handler runs without the mutex (the      *)
(* timestamp of set, the rewrite phase of compaction) are actions of their *)
(* own, so that other threads' steps can fall between them.                *)
(***************************************************************************)
EXTENDS Integers, Sequences, FiniteSets, TLC

VARIABLES
    logs,            \* <root>/bitcask-store/logs: [exists, files: id -> inode]
    compacted,       \* <root>/bitcask-store/compacted-logs: same shape
    inodes,          \* file contents: inode -> sequence of LogEntry
    mem_index,       \* BitcaskStore.mem_index: key -> ValueMetadata
    log_writer,      \* BitcaskStore.log_writer: 0 (None) or an inode
    log_readers,     \* BitcaskStore.log_readers: [some, map: id -> inode]
    current_log_id,  \* BitcaskStore.current_log_id
    clock,           \* the host clock read by Local::now()
    th,              \* per thread: position in its handler and its locals
    run,             \* this behaviour's callers: [threads, maxOps, quota, keys, values]
    hist,            \* completed calls with their results, in completion order
    writeLog,        \* records appended by set/remove, in mutex order
    sled_store,      \* whether <root>/sled-store is a directory
    engine,          \* the engine the process holds: "bitcask", "sled", "none"
    count,           \* SharedQueueThreadPool.count
    channel,         \* the job channel: [queue, receivers]
    workers,         \* per worker thread: position in start_worker and its job
    events           \* what happened to the jobs, in order

fsVars == <<logs, compacted, inodes>>
storeVars == <<mem_index, log_writer, log_readers, current_log_id>>
rootVars == <<sled_store, engine>>
poolVars == <<count, channel, workers, events>>
vars == <<logs, compacted, inodes, mem_index, log_writer, log_readers,
          current_log_id, clock, th, run, hist, writeLog, sled_store, engine,
          count, channel, workers, events>>

----------------------------------------------------------------------------
(* Program constants *)

MAX_FILE_SIZE == 1000000
TOMBSTONE == "!tomb!"

----------------------------------------------------------------------------
(* Bounds of the model *)

\* calls (set, remove, get, reopen) issued in one behaviour of one caller
MaxOps == 4
\* calls issued by the first and by the second of two threads
MaxOpsFirst == 2
MaxOpsSecond == 1
\* opens, calls and crashes in the life of one root
MaxOpsRoot == 4
\* requests of one client
MaxOpsProto == 5
\* jobs handed to the pool
MaxJobs == 3
\* the worker counts a pool is created with
PoolCounts == {0, 1, 2}
\* byte length of the value written "big"
BigLen == 1000000
\* calls, crashes and reopens of a store that lives through crashes
MaxOpsTorn == 4
\* characters of the key and of the value of a request
MaxKeyLen == 2
MaxValLen == 1
\* connections the server accepts
MaxOpsWire == 2
\* calls of the two threads whose locking is followed
MaxOpsLock == 2
\* keys in the snapshot of a compaction whose locking is followed
MaxKeysLock == 2
\* the timestamps of the records of a logs directory handed to open
MaxTs == 2
\* the records of the first and of the second segment of that directory
MaxRecsFirst == 2
MaxRecsSecond == 1

Keys == {"k1", "k2"}
\* "big" stands for a string of BigLen bytes
Values == {"a", "big", TOMBSTONE}
\* the value two threads write
ValuesConc == {"big"}
\* the values written in the life of one root
ValuesRoot == {"a", "big"}
AllThreads == {1, 2}

----------------------------------------------------------------------------
(* Codec: the size of an encoded LogEntry *)

StrLen(s) == IF s = "big" THEN BigLen
             ELSE IF s = TOMBSTONE THEN 6
             ELSE IF s \in Keys THEN 2
             ELSE 1

\* MessagePack string header: fixstr, str8, str16, str32
StrHeader(n) == IF n < 32 THEN 1
                ELSE IF n < 256 THEN 2
                ELSE IF n < 65536 THEN 3
                ELSE 5

\* the RFC 3339 text of a timestamp with nanoseconds and zone offset
TimestampLen == 35

LogEntry(k, v, ts) == [key |-> k, val |-> v, timestamp |-> ts]

\* the first n bytes of the encoding of e: what a write_all cut short by a
\* crash leaves in the file
Torn(e, n) == [key |-> e.key, val |-> e.val, timestamp |-> e.timestamp, torn |-> n]

IsTorn(e) == "torn" \in DOMAIN e

\* rmp_serde::to_vec of LogEntry: a 3-element array of key, val, timestamp
EncLen(e) == IF IsTorn(e) THEN e.torn
             ELSE 1 + StrHeader(StrLen(e.key)) + StrLen(e.key)
                    + StrHeader(StrLen(e.val)) + StrLen(e.val)
                    + StrHeader(TimestampLen) + TimestampLen

\* a decode that reads every byte of the record as if it were complete
DecodedAlways(e) == TRUE

\* decode::from_read at the start of e returns Ok: the record is complete
Decoded(e) == ~IsTorn(e)

RECURSIVE FileLen(_)
\* File::metadata().len(): the byte length of a file
FileLen(c) == IF c = <<>> THEN 0 ELSE EncLen(Head(c)) + FileLen(Tail(c))

NoEntry == LogEntry("", "", 0)

RECURSIVE ReadAt(_, _)
\* seek(SeekFrom::Start(off)) then decode::from_read: one record, or a
\* decode error at end of file or inside a record
ReadAt(c, off) ==
    IF c = <<>> THEN [ok |-> FALSE, e |-> NoEntry]
    ELSE IF off = 0 THEN
        IF Decoded(Head(c)) THEN [ok |-> TRUE, e |-> Head(c)]
        ELSE [ok |-> FALSE, e |-> NoEntry]
    ELSE IF off < EncLen(Head(c)) THEN [ok |-> FALSE, e |-> NoEntry]
    ELSE ReadAt(Tail(c), off - EncLen(Head(c)))

----------------------------------------------------------------------------
(* Index and directory helpers *)

ValueMetadata(p, id, ts) == [log_pointer |-> p, log_id |-> id, timestamp |-> ts]

\* HashMap::insert
Put(f, k, v) == [x \in (DOMAIN f) \cup {k} |-> IF x = k THEN v ELSE f[x]]
\* HashMap::remove
Drop(f, k) == [x \in (DOMAIN f) \ {k} |-> f[x]]

EmptyMap == <<>>

Range(f) == {f[x] : x \in DOMAIN f}

MaxOf(S) == IF S = {} THEN 0 ELSE CHOOSE m \in S : \A x \in S : x <= m

\* the orders in which a HashMap may iterate over the set S
Perms(S) ==
    LET n == Cardinality(S)
    IN  {s \in [1..n -> S] : \A i, j \in 1..n : i # j => s[i] # s[j]}

\* a directory: whether it exists, its segments <n>.db (id -> inode) and the
\* names of its other entries
NoDir == [exists |-> FALSE, files |-> EmptyMap, others |-> {}]
EmptyDir == [exists |-> TRUE, files |-> EmptyMap, others |-> {}]

Digits == {"0", "1", "2", "3", "4", "5", "6", "7", "8", "9"}

\* the entries other than segments that may turn up in the logs directory: a
\* name is its stem, as a sequence of characters, and its extension
OtherNames == {[stem |-> <<"n", "o", "t", "e", "s">>, ext |-> "txt"]}

\* log_id_path.set_extension("") and .parse::<u64>() of the directory scans:
\* the stem parses when it is a non-empty sequence of digits
ParsesAsId(name) ==
    /\ name.stem # <<>>
    /\ \A i \in 1..Len(name.stem) : name.stem[i] \in Digits

\* the for loop over fs::read_dir of the logs directory gets through: every
\* entry's stem parses (the segments' stems do)
ScanParses(lg) == \A n \in lg.others : ParsesAsId(n)

\* an inode number not in use
FreshInode(ino) == CHOOSE i \in 1..(Cardinality(DOMAIN ino) + 1) : i \notin DOMAIN ino

\* the file system frees a file that no directory names and no handle holds
Gc(ino, keep) == [i \in (DOMAIN ino) \cap keep |-> ino[i]]

Refs(lg, cp, w, rd, t) ==
    Range(lg.files) \cup Range(cp.files) \cup {w} \cup Range(rd.map)
        \cup {t[x].cw : x \in DOMAIN t}

----------------------------------------------------------------------------
(* Results of calls *)

Ok == [tag |-> "ok", val |-> ""]
None == [tag |-> "none", val |-> ""]
Some(v) == [tag |-> "some", val |-> v]
Err(kind) == [tag |-> "err", val |-> kind]

----------------------------------------------------------------------------
(* BitcaskStore helpers; each returns the changed parts of the state *)

\* a log_readers_init that installs an empty reader map without reading
\* the logs directory
LogReadersEmpty(lg, rd) ==
    IF rd.some THEN [ok |-> TRUE, err |-> Ok, log_readers |-> rd]
    ELSE [ok |-> TRUE, err |-> Ok, log_readers |-> [some |-> TRUE, map |-> EmptyMap]]

\* BitcaskStore::log_readers_init: one reader per file of the logs directory
\* (fs::read_dir fails when the directory is missing)
LogReadersInit(lg, rd) ==
    IF rd.some THEN [ok |-> TRUE, err |-> Ok, log_readers |-> rd]
    ELSE IF ~lg.exists THEN [ok |-> FALSE, err |-> Err("IoError"), log_readers |-> rd]
    ELSE IF ~ScanParses(lg) THEN
        [ok |-> FALSE, err |-> Err("ParseIntError"), log_readers |-> rd]
    ELSE [ok |-> TRUE, err |-> Ok, log_readers |-> [some |-> TRUE, map |-> lg.files]]

\* BitcaskStore::log_writer_init: open (create, append) <current_log_id>.db
\* in the logs directory and register a reader for it
LogWriterInit(lg, ino, w, rd, cur) ==
    IF w # 0 THEN
        [ok |-> TRUE, err |-> Ok, logs |-> lg, inodes |-> ino, log_writer |-> w,
         log_readers |-> rd]
    ELSE IF ~lg.exists THEN
        [ok |-> FALSE, err |-> Err("IoError"), logs |-> lg, inodes |-> ino,
         log_writer |-> w, log_readers |-> rd]
    ELSE
        LET isNew == cur \notin DOMAIN lg.files
            f == IF isNew THEN FreshInode(ino) ELSE lg.files[cur]
            lg2 == [lg EXCEPT !.files = Put(lg.files, cur, f)]
            ino2 == IF isNew THEN Put(ino, f, <<>>) ELSE ino
            ri == LogReadersInit(lg2, rd)
        IN  IF ~ri.ok THEN
                \* the writer is installed before log_readers_init fails
                [ok |-> FALSE, err |-> ri.err, logs |-> lg2, inodes |-> ino2,
                 log_writer |-> f, log_readers |-> rd]
            ELSE
                [ok |-> TRUE, err |-> Ok, logs |-> lg2, inodes |-> ino2, log_writer |-> f,
                 log_readers |-> [some |-> TRUE, map |-> Put(ri.log_readers.map, cur, f)]]

\* BitcaskEngine::get_val_metadata, the part under the mutex: the value and
\* metadata of a key, None, or an error; the readers may be initialised
GetValMetadata(lg, ino, idx, rd, k) ==
    LET ri == LogReadersInit(lg, rd)
    IN  IF ~ri.ok THEN
            [res |-> ri.err, meta |-> ValueMetadata(0, 0, 0), log_readers |-> rd]
        ELSE IF k \notin DOMAIN idx THEN
            [res |-> None, meta |-> ValueMetadata(0, 0, 0), log_readers |-> ri.log_readers]
        ELSE IF idx[k].log_id \notin DOMAIN ri.log_readers.map THEN
            [res |-> Err("LogReaderNotFoundError"), meta |-> idx[k],
             log_readers |-> ri.log_readers]
        ELSE
            LET r == ReadAt(ino[ri.log_readers.map[idx[k].log_id]], idx[k].log_pointer)
            IN  IF ~r.ok THEN
                    [res |-> Err("DeserializationError"), meta |-> idx[k],
                     log_readers |-> ri.log_readers]
                ELSE IF r.e.val = TOMBSTONE THEN
                    [res |-> None, meta |-> idx[k], log_readers |-> ri.log_readers]
                ELSE
                    [res |-> Some(r.e.val), meta |-> idx[k], log_readers |-> ri.log_readers]

----------------------------------------------------------------------------
(* Replay on open *)

\* one iteration of the replay loop of open: the recency rule
ReplayEntry(idx, id, off, e) ==
    IF e.key \in DOMAIN idx /\ e.timestamp < idx[e.key].timestamp THEN idx
    ELSE IF e.val = TOMBSTONE THEN Drop(idx, e.key)
    ELSE Put(idx, e.key, ValueMetadata(off, id, e.timestamp))

RECURSIVE ReplayFile(_, _, _, _)
\* the while-let loop of open over one segment, from offset off: it ends
\* at the end of the file or at the first record that does not decode
ReplayFile(idx, id, off, c) ==
    IF c = <<>> \/ ~Decoded(Head(c)) THEN idx
    ELSE ReplayFile(ReplayEntry(idx, id, off, Head(c)), id, off + EncLen(Head(c)), Tail(c))

RECURSIVE Replay(_, _, _, _)
\* the for loop of open over the readers, in the HashMap's iteration order
Replay(idx, files, ino, order) ==
    IF order = <<>> THEN idx
    ELSE Replay(ReplayFile(idx, Head(order), 0, ino[files[Head(order)]]),
                files, ino, Tail(order))

\* an open that, on a root without segments, leaves latest_file_id at 0
OpenKeepsId(lg, ino, order) ==
    LET files == IF lg.exists THEN lg.files ELSE EmptyMap
        latest_file_id == MaxOf(DOMAIN files)
        f == FreshInode(ino)
    IN  IF latest_file_id # 0 THEN
            [logs |-> lg, inodes |-> ino,
             mem_index |-> Replay(EmptyMap, files, ino, order),
             log_writer |-> files[latest_file_id],
             log_readers |-> [some |-> TRUE, map |-> files],
             current_log_id |-> latest_file_id]
        ELSE
            [logs |-> [EmptyDir EXCEPT !.files = Put(EmptyMap, 1, f)],
             inodes |-> Put(ino, f, <<>>),
             mem_index |-> EmptyMap,
             log_writer |-> f,
             log_readers |-> [some |-> TRUE, map |-> Put(EmptyMap, 1, f)],
             current_log_id |-> latest_file_id]

\* BitcaskEngine::open on a root without a sled store: the new engine state
Open(lg, ino, order) ==
    LET files == IF lg.exists THEN lg.files ELSE EmptyMap
        latest_file_id == MaxOf(DOMAIN files)
    IN  IF latest_file_id # 0 THEN
            [logs |-> lg, inodes |-> ino,
             mem_index |-> Replay(EmptyMap, files, ino, order),
             log_writer |-> files[latest_file_id],
             log_readers |-> [some |-> TRUE, map |-> files],
             current_log_id |-> latest_file_id]
        ELSE
            LET f == FreshInode(ino)
            IN  [logs |-> [EmptyDir EXCEPT !.files = Put(EmptyMap, 1, f)],
                 inodes |-> Put(ino, f, <<>>),
                 mem_index |-> EmptyMap,
                 log_writer |-> f,
                 log_readers |-> [some |-> TRUE, map |-> Put(EmptyMap, 1, f)],
                 current_log_id |-> 1]

----------------------------------------------------------------------------
(* Threads *)

IdleTh == [pc |-> "idle", op |-> "none", key |-> "", val |-> "", ts |-> 0,
           keys |-> <<>>, updated |-> EmptyMap, cid |-> 0, cw |-> 0, off |-> 0,
           pend |-> NoEntry]

\* a completed call: who, what, its result, and whether it committed a
\* compaction
Entry(t, op, k, v, res, cm) ==
    [t |-> t, op |-> op, key |-> k, val |-> v, res |-> res, cm |-> cm]

Call(t, res) == Entry(t, th[t].op, th[t].key, th[t].val, res,
                      th[t].pc = "cm_commit" /\ res.tag = "ok")

\* what get would return for every key
View(lg, ino, idx, rd) == [k \in Keys |-> GetValMetadata(lg, ino, idx, rd, k).res]

\* calls begun so far
Begun == Len(hist) + Cardinality({t \in run.threads : th[t].pc # "idle"})

\* calls of thread t that have returned
Returned(t) == Cardinality({i \in 1..Len(hist) : hist[i].t = t})

\* thread t may issue one more call
MayCall(t) ==
    /\ engine = "bitcask"
    /\ th[t].pc = "idle" /\ Begun < run.maxOps /\ Returned(t) < run.quota[t]

\* the handler of thread t returns res: the call is recorded, the handles
\* the handler held are closed
Return(t, res) ==
    /\ th' = [th EXCEPT ![t] = IdleTh]
    /\ hist' = Append(hist, Call(t, res))

TypeOK ==
    /\ logs.exists \in BOOLEAN
    /\ compacted.exists \in BOOLEAN
    /\ log_writer \in Nat
    /\ current_log_id \in Nat \ {0}
    /\ DOMAIN mem_index \subseteq Keys
    /\ run.threads \subseteq AllThreads
    /\ run.values \subseteq Values
    /\ run.keys \subseteq Keys
    /\ sled_store \in BOOLEAN
    /\ engine \in {"bitcask", "sled", "none"}
    /\ Len(hist) <= run.maxOps

\* a process that runs no server: no worker pool
NoPool ==
    /\ count = 0
    /\ channel = [queue |-> <<>>, receivers |-> 0]
    /\ workers = <<>>
    /\ events = <<>>

InitStore(T, n, q, K, V) ==
    LET o == Open(NoDir, EmptyMap, <<>>)
    IN  /\ sled_store = FALSE
        /\ engine = "bitcask"
        /\ logs = o.logs
        /\ compacted = NoDir
        /\ inodes = o.inodes
        /\ mem_index = o.mem_index
        /\ log_writer = o.log_writer
        /\ log_readers = o.log_readers
        /\ current_log_id = o.current_log_id
        /\ clock = 0
        /\ run = [threads |-> T, maxOps |-> n, quota |-> q, keys |-> K, values |-> V]
        /\ th = [t \in AllThreads |-> IdleTh]
        /\ hist = <<>>
        /\ writeLog = <<>>

\* one caller: the state after BitcaskEngine::open on a fresh root
Init == InitStore({1}, MaxOps, <<MaxOps, 0>>, Keys, Values) /\ NoPool

\* the engine shared by two threads
InitConc == InitStore(AllThreads, MaxOpsFirst + MaxOpsSecond,
                      <<MaxOpsFirst, MaxOpsSecond>>, Keys, ValuesConc) /\ NoPool

----------------------------------------------------------------------------
(* BitcaskEngine::set *)

\* set, before the mutex is taken: the record is serialised with the time
\* read here
SetBegin(t, k, v) ==
    /\ MayCall(t)
    /\ clock' = clock + 1
    /\ th' = [th EXCEPT ![t] = [IdleTh EXCEPT !.pc = "set_write", !.op = "set",
                                              !.key = k, !.val = v, !.ts = clock + 1]]
    /\ UNCHANGED <<fsVars, storeVars, run, hist, writeLog>>

\* the index entry set installs for its record
SetMetadata(offset, id, recordTs, now) == ValueMetadata(offset, id, now)

\* set, under the mutex: append the record to the active segment and point
\* the index at it
SetWrite(t) ==
    /\ th[t].pc = "set_write"
    /\ LET wi == LogWriterInit(logs, inodes, log_writer, log_readers, current_log_id)
       IN  IF ~wi.ok THEN
               /\ Return(t, wi.err)
               /\ logs' = wi.logs
               /\ inodes' = wi.inodes
               /\ log_writer' = wi.log_writer
               /\ log_readers' = wi.log_readers
               /\ UNCHANGED <<compacted, mem_index, current_log_id, clock, run, writeLog>>
           ELSE
               LET offset == FileLen(wi.inodes[wi.log_writer])
                   e == LogEntry(th[t].key, th[t].val, th[t].ts)
               IN  /\ logs' = wi.logs
                   /\ inodes' = [wi.inodes EXCEPT ![wi.log_writer] = Append(@, e)]
                   /\ log_writer' = wi.log_writer
                   /\ log_readers' = wi.log_readers
                   /\ mem_index' = Put(mem_index, th[t].key,
                                       SetMetadata(offset, current_log_id, th[t].ts, clock + 1))
                   /\ clock' = clock + 1
                   /\ writeLog' = Append(writeLog, e)
                   /\ th' = [th EXCEPT ![t].pc = "cm_check"]
                   /\ UNCHANGED <<compacted, current_log_id, run, hist>>

----------------------------------------------------------------------------
(* BitcaskEngine::remove *)

\* a remove that leaves the key in the index
EvictKeyKept(idx, k) == idx

\* mem_index.remove(&key) of remove
EvictKey(idx, k) == Drop(idx, k)

\* a remove that opens the writer before it looks the key up
WriterBeforeLookup(lg, ino, w, rd, cur) == LogWriterInit(lg, ino, w, rd, cur)

\* the files and handles a remove of an absent key leaves: the lookup
\* fails before log_writer_init is reached
AbsentKey(lg, ino, w, rd, cur) ==
    [ok |-> TRUE, err |-> Ok, logs |-> lg, inodes |-> ino, log_writer |-> w,
     log_readers |-> rd]

\* remove, all of it up to the compaction check, under the mutex
Remove(t, k) ==
    /\ MayCall(t)
    /\ IF k \notin DOMAIN mem_index THEN
           LET a == AbsentKey(logs, inodes, log_writer, log_readers, current_log_id)
           IN  /\ logs' = a.logs
               /\ inodes' = a.inodes
               /\ log_writer' = a.log_writer
               /\ log_readers' = a.log_readers
               /\ hist' = Append(hist, Entry(t, "remove", k, "",
                                             Err("KeyNotFoundError"), FALSE))
               /\ UNCHANGED <<compacted, mem_index, current_log_id, clock, th, run,
                              writeLog>>
       ELSE
           LET wi == LogWriterInit(logs, inodes, log_writer, log_readers, current_log_id)
               e == LogEntry(k, TOMBSTONE, clock + 1)
           IN  /\ mem_index' = EvictKey(mem_index, k)
               /\ clock' = clock + 1
               /\ IF ~wi.ok THEN
                      /\ hist' = Append(hist, Entry(t, "remove", k, "", wi.err, FALSE))
                      /\ logs' = wi.logs
                      /\ inodes' = wi.inodes
                      /\ log_writer' = wi.log_writer
                      /\ log_readers' = wi.log_readers
                      /\ UNCHANGED <<compacted, current_log_id, th, run, writeLog>>
                  ELSE
                      /\ logs' = wi.logs
                      /\ inodes' = [wi.inodes EXCEPT ![wi.log_writer] = Append(@, e)]
                      /\ log_writer' = wi.log_writer
                      /\ log_readers' = wi.log_readers
                      /\ writeLog' = Append(writeLog, e)
                      /\ th' = [th EXCEPT ![t] = [IdleTh EXCEPT !.pc = "cm_check",
                                                                !.op = "remove", !.key = k]]
                      /\ UNCHANGED <<compacted, current_log_id, run, hist>>

----------------------------------------------------------------------------
(* BitcaskEngine::get *)

Get(t, k) ==
    /\ MayCall(t)
    /\ LET g == GetValMetadata(logs, inodes, mem_index, log_readers, k)
       IN  /\ log_readers' = g.log_readers
           /\ hist' = Append(hist, Entry(t, "get", k, "", g.res, FALSE))
    /\ UNCHANGED <<fsVars, mem_index, log_writer, current_log_id, clock, th, run,
                   writeLog>>

----------------------------------------------------------------------------
(* BitcaskEngine::compaction_manager, called at the end of set and remove *)

\* the handler returns from inside compaction_manager: its staging writer is
\* closed
ReturnCm(t, res, lg, cp, ino, w, rd) ==
    /\ Return(t, res)
    /\ logs' = lg
    /\ compacted' = cp
    /\ log_writer' = w
    /\ log_readers' = rd
    /\ inodes' = Gc(ino, Refs(lg, cp, w, rd, th'))

\* whether the compaction check goes on to compact
NeedsCompaction(writer_len) == ~(writer_len < MAX_FILE_SIZE)

\* first locked section: the size check, the staging directory and the
\* snapshot of the index keys
CmCheck(t) ==
    /\ th[t].pc = "cm_check"
    /\ LET wi == LogWriterInit(logs, inodes, log_writer, log_readers, current_log_id)
       IN  IF ~wi.ok THEN
               /\ Return(t, wi.err)
               /\ logs' = wi.logs
               /\ inodes' = wi.inodes
               /\ log_writer' = wi.log_writer
               /\ log_readers' = wi.log_readers
               /\ UNCHANGED <<compacted, mem_index, current_log_id, clock, run, writeLog>>
           ELSE IF ~NeedsCompaction(FileLen(wi.inodes[wi.log_writer])) THEN
               /\ Return(t, Ok)
               /\ logs' = wi.logs
               /\ inodes' = wi.inodes
               /\ log_writer' = wi.log_writer
               /\ log_readers' = wi.log_readers
               /\ UNCHANGED <<compacted, mem_index, current_log_id, clock, run, writeLog>>
           ELSE
               /\ logs' = wi.logs
               /\ inodes' = wi.inodes
               /\ log_writer' = wi.log_writer
               /\ log_readers' = wi.log_readers
               /\ compacted' = IF compacted.exists THEN compacted ELSE EmptyDir
               /\ \E ks \in Perms(DOMAIN mem_index) :
                      th' = [th EXCEPT ![t].keys = ks, ![t].pc = "cm_open"]
               /\ UNCHANGED <<mem_index, current_log_id, clock, run, hist, writeLog>>

\* OpenOptions create+append on <id>.db of the staging directory
OpenCompactLog(cp, ino, id) ==
    LET isNew == id \notin DOMAIN cp.files
        f == IF isNew THEN FreshInode(ino) ELSE cp.files[id]
    IN  [compacted |-> [cp EXCEPT !.files = Put(cp.files, id, f)],
         inodes |-> IF isNew THEN Put(ino, f, <<>>) ELSE ino,
         cw |-> f]

\* without the mutex: the first compacted segment is opened
CmOpen(t) ==
    /\ th[t].pc = "cm_open"
    /\ IF ~compacted.exists THEN
           /\ ReturnCm(t, Err("IoError"), logs, compacted, inodes, log_writer, log_readers)
           /\ UNCHANGED <<mem_index, current_log_id, clock, run, writeLog>>
       ELSE
           LET o == OpenCompactLog(compacted, inodes, 1)
           IN  /\ compacted' = o.compacted
               /\ inodes' = o.inodes
               /\ th' = [th EXCEPT ![t].updated = EmptyMap, ![t].cid = 1, ![t].cw = o.cw,
                                   ![t].pc = IF th[t].keys = <<>> THEN "cm_commit"
                                             ELSE "cm_key"]
               /\ UNCHANGED <<logs, storeVars, clock, run, hist, writeLog>>

\* the timestamp compaction writes into the rewritten record of a key
CompactTimestamp(meta) == meta.timestamp

\* loop body, first half: the offset (with rollover to the next compacted
\* segment) and the read of the key through get_val_metadata
CmKey(t) ==
    /\ th[t].pc = "cm_key"
    /\ LET k == Head(th[t].keys)
           len == FileLen(inodes[th[t].cw])
           roll == len >= MAX_FILE_SIZE
       IN  IF roll /\ ~compacted.exists THEN
               /\ ReturnCm(t, Err("IoError"), logs, compacted, inodes, log_writer, log_readers)
               /\ UNCHANGED <<mem_index, current_log_id, clock, run, writeLog>>
           ELSE
               LET o == IF roll THEN OpenCompactLog(compacted, inodes, th[t].cid + 1)
                        ELSE [compacted |-> compacted, inodes |-> inodes, cw |-> th[t].cw]
                   cid == IF roll THEN th[t].cid + 1 ELSE th[t].cid
                   offset == IF roll THEN 0 ELSE len
                   g == GetValMetadata(logs, o.inodes, mem_index, log_readers, k)
               IN  IF g.res.tag = "err" THEN
                       /\ ReturnCm(t, g.res, logs, o.compacted, o.inodes, log_writer,
                                   g.log_readers)
                       /\ UNCHANGED <<mem_index, current_log_id, clock, run, writeLog>>
                   ELSE IF g.res.tag = "none" THEN
                       /\ ReturnCm(t, Err("CompactionError"), logs, o.compacted, o.inodes,
                                   log_writer, g.log_readers)
                       /\ UNCHANGED <<mem_index, current_log_id, clock, run, writeLog>>
                   ELSE
                       /\ compacted' = o.compacted
                       /\ inodes' = o.inodes
                       /\ log_readers' = g.log_readers
                       /\ th' = [th EXCEPT ![t].cid = cid, ![t].cw = o.cw, ![t].off = offset,
                                           ![t].pend = LogEntry(k, g.res.val,
                                                                CompactTimestamp(g.meta)),
                                           ![t].pc = "cm_write"]
                       /\ UNCHANGED <<logs, mem_index, log_writer, current_log_id, clock,
                                      run, hist, writeLog>>

\* loop body, second half: the record is appended to the compacted segment
\* and entered in the updated index
CmWrite(t) ==
    /\ th[t].pc = "cm_write"
    /\ inodes' = [inodes EXCEPT ![th[t].cw] = Append(@, th[t].pend)]
    /\ th' = [th EXCEPT ![t].updated = Put(@, th[t].pend.key,
                                           ValueMetadata(th[t].off, th[t].cid,
                                                         th[t].pend.timestamp)),
                        ![t].keys = Tail(@),
                        ![t].pend = NoEntry,
                        ![t].off = 0,
                        ![t].pc = IF Tail(th[t].keys) = <<>> THEN "cm_commit" ELSE "cm_key"]
    /\ UNCHANGED <<logs, compacted, storeVars, clock, run, hist, writeLog>>

\* the index compaction installs at its commit
CommitIndex(updated_index, old_index) == updated_index

\* second locked section: the readers are dropped, the logs directory is
\* removed, the staging directory renamed to it, and the index replaced
CmCommit(t) ==
    /\ th[t].pc = "cm_commit"
    /\ IF ~compacted.exists THEN
           /\ ReturnCm(t, Err("IoError"), NoDir, compacted, inodes, log_writer,
                       [some |-> FALSE, map |-> EmptyMap])
           /\ UNCHANGED <<mem_index, current_log_id, clock, run, writeLog>>
       ELSE
           /\ ReturnCm(t, Ok, compacted, NoDir, inodes, 0,
                       [some |-> FALSE, map |-> EmptyMap])
           /\ mem_index' = CommitIndex(th[t].updated, mem_index)
           /\ current_log_id' = th[t].cid + 1
           /\ UNCHANGED <<clock, run, writeLog>>

----------------------------------------------------------------------------
(* The request handler of the server *)

NoReply == [sent |-> FALSE, text |-> ""]
Sent(text) == [sent |-> TRUE, text |-> text]

\* the opcode of the request that makes req_handler issue the call op
Opcode(op) == IF op = "get" THEN "GET"
              ELSE IF op = "set" THEN "SET"
              ELSE IF op = "remove" THEN "RM"
              ELSE "OTHER"

\* req_handler with handle_get, handle_set and handle_rm: the reply written
\* to the client for opcode cmd when the engine call returned res; on an
\* engine error the handler logs and returns without a reply
Reply(cmd, res) ==
    IF cmd = "GET" THEN
        IF res.tag = "some" THEN Sent(res.val)
        ELSE IF res.tag = "none" THEN Sent("Key not found")
        ELSE NoReply
    ELSE IF cmd = "SET" THEN
        IF res.tag = "ok" THEN Sent("set successful") ELSE NoReply
    ELSE IF cmd = "RM" THEN
        IF res.tag = "ok" THEN Sent("Success")
        ELSE IF res = Err("KeyNotFoundError") THEN Sent("Key not found")
        ELSE NoReply
    ELSE Sent("Invalid command")

\* a request with an opcode other than GET, SET and RM: no engine call
Invalid(t) ==
    /\ MayCall(t)
    /\ hist' = Append(hist, Entry(t, "other", "", "", Ok, FALSE))
    /\ UNCHANGED <<fsVars, storeVars, clock, th, run, writeLog, rootVars, poolVars>>

DoInvalid == \E t \in run.threads : Invalid(t)

----------------------------------------------------------------------------
(* Close and reopen *)

\* the iteration order of the readers HashMap in open
ScanOrders(lg) == IF lg.exists THEN Perms(DOMAIN lg.files) ELSE {<<>>}

\* an open that does not look for the sled directory
SledStoreIgnored(sled) == FALSE

\* the sled check at the head of BitcaskEngine::open
SledStoreFound(sled) == sled

\* the state of a process that holds no engine
NoStore == [mem_index |-> EmptyMap, log_writer |-> 0,
            log_readers |-> [some |-> FALSE, map |-> EmptyMap], current_log_id |-> 1]

\* a completed open: the engine held and the directories of the root
\* before, the result, what get returned for every key before, the scan
\* order and what get returns after
Opened(op, res, before, order, after) ==
    [t |-> 0, op |-> op, key |-> "", val |-> "", res |-> res, cm |-> FALSE,
     from |-> engine,
     root |-> [sled |-> sled_store, logs |-> logs.exists, others |-> logs.others],
     before |-> before, order |-> order, after |-> after]

\* BitcaskEngine::open returns the error e before it changed anything: the
\* process holds no engine
OpenFails(e) ==
    /\ engine' = "none"
    /\ mem_index' = NoStore.mem_index
    /\ log_writer' = NoStore.log_writer
    /\ log_readers' = NoStore.log_readers
    /\ current_log_id' = NoStore.current_log_id
    /\ inodes' = Gc(inodes, Refs(logs, compacted, 0, NoStore.log_readers, th))
    /\ hist' = Append(hist, Opened("open", e,
                                   View(logs, inodes, mem_index, log_readers), <<>>,
                                   [k \in Keys |-> e]))
    /\ UNCHANGED logs

\* the engine (if any) is dropped and BitcaskEngine::open runs on the root
Reopen ==
    /\ \A t \in run.threads : th[t].pc = "idle"
    /\ Begun < run.maxOps
    /\ IF SledStoreFound(sled_store) THEN
           OpenFails(Err("CliError"))
       ELSE IF logs.exists /\ ~ScanParses(logs) THEN
           OpenFails(Err("ParseIntError"))
       ELSE
           /\ engine' = "bitcask"
           /\ \E order \in ScanOrders(logs) :
                  LET o == Open(logs, inodes, order)
                  IN  /\ logs' = o.logs
                      /\ mem_index' = o.mem_index
                      /\ log_writer' = o.log_writer
                      /\ log_readers' = o.log_readers
                      /\ current_log_id' = o.current_log_id
                      /\ inodes' = Gc(o.inodes, Refs(o.logs, compacted, o.log_writer,
                                                     o.log_readers, th))
                      /\ hist' = Append(hist,
                             Opened("open", Ok, View(logs, inodes, mem_index, log_readers),
                                    order,
                                    View(logs', inodes', mem_index', log_readers')))
    /\ UNCHANGED <<compacted, clock, th, run, writeLog, sled_store, poolVars>>

\* the engine (if any) is dropped and SledEngine::open runs on the root:
\* it fails when the bitcask logs directory exists, else sled creates its
\* directory
SledOpen ==
    /\ \A t \in run.threads : th[t].pc = "idle"
    /\ Begun < run.maxOps
    /\ mem_index' = NoStore.mem_index
    /\ log_writer' = NoStore.log_writer
    /\ log_readers' = NoStore.log_readers
    /\ current_log_id' = NoStore.current_log_id
    /\ inodes' = Gc(inodes, Refs(logs, compacted, 0, NoStore.log_readers, th))
    /\ IF logs.exists THEN
           /\ engine' = "none"
           /\ hist' = Append(hist, Opened("open_sled", Err("CliError"),
                                          View(logs, inodes, mem_index, log_readers), <<>>,
                                          [k \in Keys |-> Err("CliError")]))
           /\ UNCHANGED sled_store
       ELSE
           /\ engine' = "sled"
           /\ sled_store' = TRUE
           /\ hist' = Append(hist, Opened("open_sled", Ok,
                                          View(logs, inodes, mem_index, log_readers), <<>>,
                                          [k \in Keys |-> None]))
    /\ UNCHANGED <<logs, compacted, clock, th, run, writeLog, poolVars>>

----------------------------------------------------------------------------
(* Crashes of the process *)

\* the process has died: the engine and every thread are gone; what get
\* returned for every key just before is recorded
Died(op, before) ==
    /\ engine' = "none"
    /\ mem_index' = NoStore.mem_index
    /\ log_writer' = NoStore.log_writer
    /\ log_readers' = NoStore.log_readers
    /\ current_log_id' = NoStore.current_log_id
    /\ th' = [x \in AllThreads |-> IdleTh]
    /\ hist' = Append(hist, Opened(op, Ok, before, <<>>, before))

\* the bytes of a record that reach the file when write_all is cut short
TornLens(e) == {1, EncLen(e) - 1}

\* the process dies inside the write_all of set: a part of the record is in
\* the active segment
CrashAppend(t) ==
    /\ th[t].pc = "set_write"
    /\ LET wi == LogWriterInit(logs, inodes, log_writer, log_readers, current_log_id)
           e == LogEntry(th[t].key, th[t].val, th[t].ts)
       IN  /\ wi.ok
           /\ logs' = wi.logs
           /\ \E n \in TornLens(e) :
                  inodes' = Gc([wi.inodes EXCEPT ![wi.log_writer] = Append(@, Torn(e, n))],
                               Range(wi.logs.files) \cup Range(compacted.files))
    /\ Died("crash_append", View(logs, inodes, mem_index, log_readers))
    /\ UNCHANGED <<compacted, clock, run, writeLog, sled_store, poolVars>>

\* the process dies inside the commit of compaction, after remove_dir_all of
\* the logs directory and before the rename of the staging directory
CrashCommit(t) ==
    /\ th[t].pc = "cm_commit"
    /\ compacted.exists
    /\ logs' = NoDir
    /\ inodes' = Gc(inodes, Range(compacted.files))
    /\ Died("crash_commit", View(logs, inodes, mem_index, log_readers))
    /\ UNCHANGED <<compacted, clock, run, writeLog, sled_store, poolVars>>

DoCrashAppend == \E t \in run.threads : CrashAppend(t)
DoCrashCommit == \E t \in run.threads : CrashCommit(t)

----------------------------------------------------------------------------

DoSetBegin ==
    /\ \E t \in run.threads, k \in run.keys, v \in run.values : SetBegin(t, k, v)
    /\ UNCHANGED <<rootVars, poolVars>>
DoSetWrite ==
    /\ \E t \in run.threads : SetWrite(t)
    /\ UNCHANGED <<rootVars, poolVars>>
DoRemove ==
    /\ \E t \in run.threads, k \in run.keys : Remove(t, k)
    /\ UNCHANGED <<rootVars, poolVars>>
DoGet ==
    /\ \E t \in run.threads, k \in run.keys : Get(t, k)
    /\ UNCHANGED <<rootVars, poolVars>>
DoCmCheck ==
    /\ \E t \in run.threads : CmCheck(t)
    /\ UNCHANGED <<rootVars, poolVars>>
DoCmOpen ==
    /\ \E t \in run.threads : CmOpen(t)
    /\ UNCHANGED <<rootVars, poolVars>>
DoCmKey ==
    /\ \E t \in run.threads : CmKey(t)
    /\ UNCHANGED <<rootVars, poolVars>>
DoCmWrite ==
    /\ \E t \in run.threads : CmWrite(t)
    /\ UNCHANGED <<rootVars, poolVars>>
DoCmCommit ==
    /\ \E t \in run.threads : CmCommit(t)
    /\ UNCHANGED <<rootVars, poolVars>>

Next ==
    \/ DoSetBegin
    \/ DoSetWrite
    \/ DoRemove
    \/ DoGet
    \/ DoCmCheck
    \/ DoCmOpen
    \/ DoCmKey
    \/ DoCmWrite
    \/ DoCmCommit
    \/ Reopen

\* one caller
Spec == Init /\ [][Next]_vars

\* two threads sharing the engine
SpecConc == InitConc /\ [][Next]_vars

\* the life of one root directory, from a fresh root on which no engine was
\* opened yet: opens of either backend, calls of one caller, crashes
InitRoot ==
    /\ sled_store = FALSE
    /\ engine = "none"
    /\ logs = NoDir
    /\ compacted = NoDir
    /\ inodes = EmptyMap
    /\ mem_index = NoStore.mem_index
    /\ log_writer = NoStore.log_writer
    /\ log_readers = NoStore.log_readers
    /\ current_log_id = NoStore.current_log_id
    /\ clock = 0
    /\ run = [threads |-> {1}, maxOps |-> MaxOpsRoot, quota |-> <<MaxOpsRoot, 0>>,
              keys |-> Keys, values |-> ValuesRoot]
    /\ th = [t \in AllThreads |-> IdleTh]
    /\ hist = <<>>
    /\ writeLog = <<>>
    /\ NoPool

\* between two calls, something other than the engine leaves a file that is
\* not a segment in the logs directory
PutOther ==
    /\ \A t \in run.threads : th[t].pc = "idle"
    /\ logs.exists
    /\ \E n \in OtherNames \ logs.others :
           logs' = [logs EXCEPT !.others = @ \cup {n}]
    /\ UNCHANGED <<compacted, inodes, storeVars, clock, th, run, hist, writeLog,
                   rootVars, poolVars>>

NextRoot ==
    \/ Next
    \/ SledOpen
    \/ DoCrashAppend
    \/ DoCrashCommit

SpecRoot == InitRoot /\ [][NextRoot]_vars

NextOther ==
    \/ NextRoot
    \/ PutOther

\* the life of a root directory in whose logs directory other files turn up
SpecOther == InitRoot /\ [][NextOther]_vars

\* a store opened on a fresh root, its one caller, and processes that die
\* inside an append and are started again on the same root
InitTorn == InitStore({1}, MaxOpsTorn, <<MaxOpsTorn, 0>>, Keys, ValuesRoot) /\ NoPool

SpecTorn == InitTorn /\ [][Next \/ DoCrashAppend]_vars

\* every sequence over S of at most n elements
SeqsUpTo(S, n) == UNION {[1..m -> S] : m \in 0..n}

\* a process about to open a root whose logs directory holds the segments
\* 1.db and 2.db with any records of one key, in any order of their
\* timestamps
InitReplay ==
    /\ sled_store = FALSE
    /\ engine = "none"
    /\ logs = [EmptyDir EXCEPT !.files = [id \in {1, 2} |-> id]]
    /\ compacted = NoDir
    /\ LET ReplayRecords ==
               {LogEntry("k1", v, ts) : v \in {"a", TOMBSTONE}, ts \in 1..MaxTs}
       IN  \E first \in SeqsUpTo(ReplayRecords, MaxRecsFirst),
              second \in SeqsUpTo(ReplayRecords, MaxRecsSecond) :
               inodes = [id \in {1, 2} |-> IF id = 1 THEN first ELSE second]
    /\ mem_index = NoStore.mem_index
    /\ log_writer = NoStore.log_writer
    /\ log_readers = NoStore.log_readers
    /\ current_log_id = NoStore.current_log_id
    /\ clock = MaxTs
    /\ run = [threads |-> {1}, maxOps |-> 1, quota |-> <<1, 0>>,
              keys |-> Keys, values |-> Values]
    /\ th = [t \in AllThreads |-> IdleTh]
    /\ hist = <<>>
    /\ writeLog = <<>>
    /\ NoPool

\* the replay of open as a function of the segments it finds
SpecReplay == InitReplay /\ [][Reopen]_vars

\* one client of the server sending requests on one key, one at a time
InitProto == InitStore({1}, MaxOpsProto, <<MaxOpsProto, 0>>, {"k1"}, Values) /\ NoPool

NextProto ==
    \/ Next
    \/ DoInvalid

SpecProto == InitProto /\ [][NextProto]_vars

----------------------------------------------------------------------------
(* SharedQueueThreadPool (src/src/thread_pool.rs) *)

\* a worker thread blocked in rx.iter()
Waiting == [pc |-> "recv", job |-> 0]

\* something that happened to job j: ev is "spawn", "deq" or "start"; w the
\* worker; for a spawn, whether send succeeded and what the caller got
\* back; for a start, ret becomes "panic" when the job panics
Event(ev, j, w, sent, ret) == [ev |-> ev, job |-> j, w |-> w, sent |-> sent, ret |-> ret]

\* SharedQueueThreadPool::new(n): n worker threads, each with a clone of the
\* receiver; the receiver created with the channel is dropped on return
New(n) ==
    /\ count = n
    /\ channel = [queue |-> <<>>, receivers |-> n]
    /\ workers = [w \in 1..n |-> Waiting]
    /\ events = <<>>

\* a send that reports success and enqueues nothing
SendDrops(ch, j) ==
    IF ch.receivers = 0 THEN [ok |-> FALSE, channel |-> ch]
    ELSE [ok |-> TRUE, channel |-> ch]

\* Sender::send on the unbounded channel: fails when no receiver is left
Send(ch, j) ==
    IF ch.receivers = 0 THEN [ok |-> FALSE, channel |-> ch]
    ELSE [ok |-> TRUE, channel |-> [ch EXCEPT !.queue = Append(@, j)]]

\* what spawn gives its caller: the signature returns (), the Result of
\* send is discarded
SpawnReturn(sent) == "unit"

\* the jobs handed to spawn so far
Spawned == Cardinality({i \in 1..Len(events) : events[i].ev = "spawn"})

\* SharedQueueThreadPool::spawn of the next job
Spawn ==
    /\ Spawned < MaxJobs
    /\ LET j == Spawned + 1
           r == Send(channel, j)
       IN  /\ channel' = r.channel
           /\ events' = Append(events, Event("spawn", j, 0, r.ok, SpawnReturn(r.ok)))
    /\ UNCHANGED <<count, workers>>

\* a receiver that hands out the job sent last
DequeueLast(q) == [job |-> q[Len(q)], rest |-> SubSeq(q, 1, Len(q) - 1)]

\* the receiver hands out the job sent first
Dequeue(q) == [job |-> Head(q), rest |-> Tail(q)]

\* start_worker: rx.iter() yields the next job
Recv(w) ==
    /\ workers[w].pc = "recv"
    /\ channel.queue # <<>>
    /\ LET d == Dequeue(channel.queue)
       IN  /\ channel' = [channel EXCEPT !.queue = d.rest]
           /\ workers' = [workers EXCEPT ![w] = [pc |-> "got", job |-> d.job]]
           /\ events' = Append(events, Event("deq", d.job, w, TRUE, ""))
    /\ UNCHANGED count

\* start_worker: job() is called
Start(w) ==
    /\ workers[w].pc = "got"
    /\ workers' = [workers EXCEPT ![w].pc = "run"]
    /\ events' = Append(events, Event("start", workers[w].job, w, TRUE, ""))
    /\ UNCHANGED <<count, channel>>

\* job() returns: the loop goes back to rx.iter()
Finish(w) ==
    /\ workers[w].pc = "run"
    /\ workers' = [workers EXCEPT ![w] = Waiting]
    /\ UNCHANGED <<count, channel, events>>

\* a worker thread that ends when its job panics
WorkerGone(wk) == [pc |-> "dead", job |-> 0]

\* catch_unwind returns Err and start_worker calls itself with the same
\* receiver: the thread is back in rx.iter()
AfterPanic(wk) == Waiting

\* job() panics
Panic(w) ==
    /\ workers[w].pc = "run"
    /\ workers' = [workers EXCEPT ![w] = AfterPanic(workers[w])]
    /\ events' = [i \in 1..Len(events) |->
                      IF events[i].ev = "start" /\ events[i].job = workers[w].job
                      THEN [events[i] EXCEPT !.ret = "panic"]
                      ELSE events[i]]
    /\ UNCHANGED <<count, channel>>

\* the store is not touched by the pool
StoreSame == UNCHANGED <<fsVars, storeVars, clock, th, run, hist, writeLog, rootVars>>

DoSpawn == Spawn /\ StoreSame
DoRecv == (\E w \in DOMAIN workers : Recv(w)) /\ StoreSame
DoStart == (\E w \in DOMAIN workers : Start(w)) /\ StoreSame
DoFinish == (\E w \in DOMAIN workers : Finish(w)) /\ StoreSame
DoPanic == (\E w \in DOMAIN workers : Panic(w)) /\ StoreSame

\* a pool of 0, 1 or 2 workers; the engine is not used
InitPool ==
    /\ InitStore({}, 0, <<0, 0>>, {}, {})
    /\ \E n \in PoolCounts : New(n)

NextPool ==
    \/ DoSpawn
    \/ DoRecv
    \/ DoStart
    \/ DoFinish
    \/ DoPanic

SpecPool == InitPool /\ [][NextPool]_vars

\* the next step of worker thread w
WorkerStep(w) ==
    /\ w \in DOMAIN workers
    /\ Recv(w) \/ Start(w) \/ Finish(w) \/ Panic(w)
    /\ StoreSame

\* the pool under a fair scheduler: a worker thread that can take a step
\* takes one, so a job that was started returns or panics
SpecPoolFair ==
    SpecPool /\ \A w \in 1..MaxOf(PoolCounts) : WF_vars(WorkerStep(w))

----------------------------------------------------------------------------
(* The store mutex: where set, get, remove and compaction_manager lock the
   store and where they let go of it. What the locked sections do to the
   store is left open: every way out of a section is possible. *)

\* a thread outside every engine call; bitcask_store tells whether the
\* thread has a live MutexGuard of the store, left counts the snapshot keys
\* the compaction loop has still to copy
NoCall == [pc |-> "idle", op |-> "none", from |-> "none", bitcask_store |-> FALSE,
           left |-> 0]

\* the calls of store_mutex.lock(): set (bitcask.rs:226), remove (309),
\* compaction_manager (compaction.rs:20 and 122), get_val_metadata (341)
LockPoints == {"set_lock", "rm_lock", "cm_lock", "gvm_lock", "commit_lock"}

\* the section a lock() leads into
Locked(pc) ==
    CASE pc = "set_lock" -> "set_body"
      [] pc = "rm_lock" -> "rm_body"
      [] pc = "cm_lock" -> "cm_body"
      [] pc = "gvm_lock" -> "gvm_body"
      [] pc = "commit_lock" -> "commit_body"

\* a set or remove that calls compaction_manager with its guard alive
GuardKept(guard) == guard

\* drop(bitcask_store) before set and remove call compaction_manager
DropStore(guard) == FALSE

\* a thread calls set, remove or get
LockCall(t) ==
    /\ th[t].pc = "idle"
    /\ Begun < run.maxOps
    /\ \E c \in {[op |-> "set", pc |-> "set_lock"], [op |-> "remove", pc |-> "rm_lock"],
                  [op |-> "get", pc |-> "gvm_lock"]} :
           th' = [th EXCEPT ![t] = [NoCall EXCEPT !.op = c.op, !.from = c.op, !.pc = c.pc]]
    /\ UNCHANGED hist

\* store_mutex.lock() returns once no guard of the store is alive
Lock(t) ==
    /\ th[t].pc \in LockPoints
    /\ \A u \in run.threads : ~th[u].bitcask_store
    /\ th' = [th EXCEPT ![t].pc = Locked(@), ![t].bitcask_store = TRUE]
    /\ UNCHANGED hist

\* the call returns res: its locals, the guard among them, are dropped
Unwind(t, res) ==
    /\ th' = [th EXCEPT ![t] = NoCall]
    /\ hist' = Append(hist, Entry(t, th[t].op, "", "", res, FALSE))

\* the locked section of set: an error leaves through ?, else the guard is
\* dropped and compaction_manager is called
SetBody(t) ==
    /\ th[t].pc = "set_body"
    /\ \/ Unwind(t, Err("IoError"))
       \/ /\ th' = [th EXCEPT ![t].pc = "cm_lock", ![t].bitcask_store = DropStore(@)]
          /\ UNCHANGED hist

\* the locked section of remove
RemoveBody(t) ==
    /\ th[t].pc = "rm_body"
    /\ \/ \E e \in {"KeyNotFoundError", "IoError"} : Unwind(t, Err(e))
       \/ /\ th' = [th EXCEPT ![t].pc = "cm_lock", ![t].bitcask_store = DropStore(@)]
          /\ UNCHANGED hist

\* the first locked section of compaction_manager: it returns (below the
\* threshold, or an error), or drops the guard with a snapshot of the keys
CmBody(t) ==
    /\ th[t].pc = "cm_body"
    /\ \/ \E res \in {Ok, Err("IoError")} : Unwind(t, res)
       \/ /\ \E n \in 0..MaxKeysLock :
                 th' = [th EXCEPT ![t].pc = "cm_loop", ![t].bitcask_store = FALSE,
                                  ![t].left = n]
          /\ UNCHANGED hist

\* the loop of compaction_manager over the snapshot, no guard alive: the
\* next key is read with get_val_metadata, or the staging file fails to
\* open; after the last key the commit locks the store
CmLoop(t) ==
    /\ th[t].pc = "cm_loop"
    /\ IF th[t].left = 0 THEN
           /\ th' = [th EXCEPT ![t].pc = "commit_lock"]
           /\ UNCHANGED hist
       ELSE
           \/ Unwind(t, Err("IoError"))
           \/ /\ th' = [th EXCEPT ![t].pc = "gvm_lock", ![t].from = "cm"]
              /\ UNCHANGED hist

\* the locked section of get_val_metadata, which ends with the function:
\* get returns what it got; the compaction goes on with the next key or
\* returns an error
GvmBody(t) ==
    /\ th[t].pc = "gvm_body"
    /\ IF th[t].from = "get" THEN
           \E res \in {Some("a"), None, Err("IoError")} : Unwind(t, res)
       ELSE
           \/ \E e \in {"IoError", "CompactionError"} : Unwind(t, Err(e))
           \/ /\ th' = [th EXCEPT ![t].pc = "cm_loop", ![t].bitcask_store = FALSE,
                                   ![t].left = @ - 1]
              /\ UNCHANGED hist

\* the second locked section of compaction_manager, up to its return
CommitBody(t) ==
    /\ th[t].pc = "commit_body"
    /\ \E res \in {Ok, Err("IoError")} : Unwind(t, res)

\* the locking does not depend on what the store holds
DataSame == UNCHANGED <<fsVars, storeVars, clock, run, writeLog, rootVars, poolVars>>


\* the step of thread t inside a call
InCall(t) ==
    /\ Lock(t) \/ SetBody(t) \/ RemoveBody(t) \/ CmBody(t) \/ CmLoop(t) \/ GvmBody(t)
          \/ CommitBody(t)
    /\ DataSame

\* two threads on an engine just opened
InitLock ==
    LET o == Open(NoDir, EmptyMap, <<>>)
    IN  /\ sled_store = FALSE
        /\ engine = "bitcask"
        /\ logs = o.logs
        /\ compacted = NoDir
        /\ inodes = o.inodes
        /\ mem_index = o.mem_index
        /\ log_writer = o.log_writer
        /\ log_readers = o.log_readers
        /\ current_log_id = o.current_log_id
        /\ clock = 0
        /\ run = [threads |-> AllThreads, maxOps |-> MaxOpsLock,
                  quota |-> <<MaxOpsLock, MaxOpsLock>>, keys |-> Keys, values |-> {}]
        /\ th = [t \in AllThreads |-> NoCall]
        /\ hist = <<>>
        /\ writeLog = <<>>
        /\ NoPool

NextLock ==
    \/ (\E t \in run.threads : LockCall(t)) /\ DataSame
    \/ (\E t \in run.threads : Lock(t)) /\ DataSame
    \/ (\E t \in run.threads : SetBody(t)) /\ DataSame
    \/ (\E t \in run.threads : RemoveBody(t)) /\ DataSame
    \/ (\E t \in run.threads : CmBody(t)) /\ DataSame
    \/ (\E t \in run.threads : CmLoop(t)) /\ DataSame
    \/ (\E t \in run.threads : GvmBody(t)) /\ DataSame
    \/ (\E t \in run.threads : CommitBody(t)) /\ DataSame

\* the threads are scheduled fairly: a thread that can go on does
SpecLock == InitLock /\ [][NextLock]_vars /\ \A t \in AllThreads : WF_vars(InCall(t))

----------------------------------------------------------------------------
(* The wire: the request the client writes (src/src/bin/hobbes-client.rs)
   and what req_handler makes of it (src/src/engine.rs). A string is a
   sequence of characters, the wire carries bytes. *)

\* the characters of keys and values: a letter, the white space characters
\* space, carriage return and line feed, and a letter of two bytes
Chars == {"a", "SP", "CR", "LF", "e_acute"}

CrLf == <<"CR", "LF">>

RECURSIVE AsBytes(_)
\* String::as_bytes: the UTF-8 encoding of every character
AsBytes(str) ==
    IF str = <<>> THEN <<>>
    ELSE (IF Head(str) = "e_acute" THEN <<"c3", "a9">> ELSE <<Head(str)>>)
             \o AsBytes(Tail(str))

DigitChars == <<"0", "1", "2", "3", "4", "5", "6", "7", "8", "9">>

RECURSIVE Decimal(_)
\* format!("{}", n) of a usize
Decimal(n) ==
    IF n < 10 THEN <<DigitChars[n + 1]>>
    ELSE Decimal(n \div 10) \o <<DigitChars[(n % 10) + 1]>>

\* the opcode the client writes for a subcommand
OpcodeChars(op) ==
    IF op = "get" THEN <<"G", "E", "T">>
    ELSE IF op = "set" THEN <<"S", "E", "T">>
    ELSE <<"R", "M">>

\* main of the client: format!("GET\r\n{key}\r\n"), format!("SET\r\n{key}\r\n{val}\r\n")
\* and format!("RM\r\n{key}\r\n")
CmdToSend(op, key, val) ==
    IF op = "set" THEN OpcodeChars(op) \o CrLf \o key \o CrLf \o val \o CrLf
    ELSE OpcodeChars(op) \o CrLf \o key \o CrLf

\* send_cmd: the byte length of the command in decimal, CRLF, the command
SendCmd(cmd_to_send) ==
    AsBytes(Decimal(Len(AsBytes(cmd_to_send))) \o CrLf \o cmd_to_send)

\* BufRead::read_line: the bytes up to and with the first line feed, or all
\* of them at the end of the stream
ReadLine(b) ==
    LET lfs == {i \in 1..Len(b) : b[i] = "LF"}
        first == CHOOSE i \in lfs : \A j \in lfs : i <= j
    IN  IF lfs = {} THEN [line |-> b, rest |-> <<>>]
        ELSE [line |-> SubSeq(b, 1, first), rest |-> SubSeq(b, first + 1, Len(b))]

\* str::strip_suffix("\r\n")
StripSuffix(line) ==
    IF Len(line) >= 2 /\ SubSeq(line, Len(line) - 1, Len(line)) = CrLf
    THEN [some |-> TRUE, val |-> SubSeq(line, 1, Len(line) - 2)]
    ELSE [some |-> FALSE, val |-> <<>>]

RECURSIVE ParseDigits(_, _)
\* the number a string of digits stands for, acc being the number read so
\* far
ParseDigits(acc, str) ==
    IF str = <<>> THEN acc
    ELSE ParseDigits(10 * acc + (CHOOSE d \in 0..9 : DigitChars[d + 1] = Head(str)),
                     Tail(str))

\* str::parse::<usize>(): an error unless the string is digits
ParseUsize(str) ==
    IF str # <<>> /\ \A i \in 1..Len(str) : \E d \in 0..9 : DigitChars[d + 1] = str[i]
    THEN [ok |-> TRUE, val |-> ParseDigits(0, str)]
    ELSE [ok |-> FALSE, val |-> 0]

\* Read::read_exact of n bytes: fails when the stream ends before
ReadExact(b, n) ==
    IF Len(b) >= n THEN [ok |-> TRUE, bytes |-> SubSeq(b, 1, n)]
    ELSE [ok |-> FALSE, bytes |-> <<>>]

RECURSIVE FromUtf8(_, _)
\* String::from_utf8 of the bytes b, str being the characters decoded so
\* far: the bytes c3 a9 are one letter, a9 or ff in the place of a first
\* byte is an error
FromUtf8(str, b) ==
    IF b = <<>> THEN [ok |-> TRUE, val |-> str]
    ELSE IF Head(b) = "c3" THEN
        IF Len(b) >= 2 /\ b[2] = "a9"
        THEN FromUtf8(Append(str, "e_acute"), Tail(Tail(b)))
        ELSE [ok |-> FALSE, val |-> <<>>]
    ELSE IF Head(b) \in {"a9", "ff"} THEN [ok |-> FALSE, val |-> <<>>]
    ELSE FromUtf8(Append(str, Head(b)), Tail(b))

RECURSIVE Split(_, _)
\* str::split("\r\n"): the pieces between the separators, tok being the
\* piece read so far
Split(tok, str) ==
    IF str = <<>> THEN <<tok>>
    ELSE IF Len(str) >= 2 /\ SubSeq(str, 1, 2) = CrLf
         THEN <<tok>> \o Split(<<>>, SubSeq(str, 3, Len(str)))
         ELSE Split(Append(tok, Head(str)), Tail(str))

RECURSIVE TrimStart(_)
\* str::trim_start: space, carriage return and line feed are white space
TrimStart(str) ==
    IF str # <<>> /\ Head(str) \in {"SP", "CR", "LF"} THEN TrimStart(Tail(str)) ELSE str

RECURSIVE TrimEnd(_)
\* str::trim_end
TrimEnd(str) ==
    IF str # <<>> /\ str[Len(str)] \in {"SP", "CR", "LF"}
    THEN TrimEnd(SubSeq(str, 1, Len(str) - 1)) ELSE str

\* str::trim
Trim(str) == TrimEnd(TrimStart(str))

\* what req_handler does with the bytes of a connection: it gives up
\* without a reply (dropped), or calls the engine, or answers an unknown
\* opcode
Dropped == [call |-> "none", key |-> <<>>, val |-> <<>>, dropped |-> TRUE]
Calls(op, key, val) == [call |-> op, key |-> key, val |-> val, dropped |-> FALSE]

\* handle_get, handle_set, handle_rm: the operands are the next pieces,
\* trimmed
Operands(cmd, msg) ==
    IF cmd = OpcodeChars("get") THEN
        IF Len(msg) < 1 THEN Dropped ELSE Calls("get", Trim(msg[1]), <<>>)
    ELSE IF cmd = OpcodeChars("set") THEN
        IF Len(msg) < 2 THEN Dropped ELSE Calls("set", Trim(msg[1]), Trim(msg[2]))
    ELSE IF cmd = OpcodeChars("remove") THEN
        IF Len(msg) < 1 THEN Dropped ELSE Calls("remove", Trim(msg[1]), <<>>)
    ELSE Calls("other", <<>>, <<>>)

\* req_handler up to the call of the engine
ReqHandler(b) ==
    LET rl == ReadLine(b)
        ok_line == FromUtf8(<<>>, rl.line)
        cmd_prefix_str == StripSuffix(ok_line.val)
        cmd_len == ParseUsize(cmd_prefix_str.val)
        cmd_bytes == ReadExact(rl.rest, cmd_len.val)
        cmd_str == FromUtf8(<<>>, cmd_bytes.bytes)
        msg == Split(<<>>, cmd_str.val)
    IN  IF ~ok_line.ok \/ ~cmd_prefix_str.some \/ ~cmd_len.ok \/ ~cmd_bytes.ok
           \/ ~cmd_str.ok
        THEN Dropped
        ELSE Operands(Head(msg), Tail(msg))

RECURSIVE Text(_)
\* the engine's name for a string of characters
Text(str) == IF str = <<>> THEN "" ELSE Head(str) \o Text(Tail(str))

\* the requests req_handler refuses: the client's request with the length
\* line ended by a line feed alone, with a length that is no number, with
\* the last byte never sent, with a byte that is no UTF-8 appended, and
\* with the last operand left out, with and without the CRLF before it
Malformed(kind, op, key, val) ==
    LET Framed(m, b) == AsBytes(Decimal(m) \o CrLf) \o b
        payload == AsBytes(CmdToSend(op, key, val))
        n == Len(payload)
        fewer == IF op = "set" THEN OpcodeChars(op) \o CrLf \o key
                 ELSE OpcodeChars(op)
    IN  [kind |-> kind, op |-> op, key |-> key, val |-> val, bytes |->
            IF kind = "no_crlf" THEN AsBytes(Decimal(n)) \o <<"LF">> \o payload
            ELSE IF kind = "not_decimal" THEN <<"a">> \o CrLf \o payload
            ELSE IF kind = "short" THEN Framed(n, SubSeq(payload, 1, n - 1))
            ELSE IF kind = "not_utf8" THEN Framed(n + 1, payload \o <<"ff">>)
            ELSE IF kind = "no_operand" THEN Framed(Len(AsBytes(fewer)), AsBytes(fewer))
            ELSE Framed(Len(AsBytes(fewer \o CrLf)), AsBytes(fewer \o CrLf))]

\* the subcommands of the client
Subcommands ==
    {<<"set", k, v>> : k \in SeqsUpTo(Chars, MaxKeyLen), v \in SeqsUpTo(Chars, MaxValLen)}
        \cup {<<op, k, <<>>>> : op \in {"get", "remove"}, k \in SeqsUpTo(Chars, MaxKeyLen)}

\* what a peer writes before it waits for the reply or closes: the
\* request of the client for a subcommand, or a malformed one; kind tells
\* how the bytes were made from the subcommand op, key and val. The
\* malformed requests are made from the subcommands with a key of at most
\* one character and an empty value
Requests ==
    {[kind |-> "client", op |-> c[1], key |-> c[2], val |-> c[3],
      bytes |-> SendCmd(CmdToSend(c[1], c[2], c[3]))] : c \in Subcommands}
        \cup {Malformed(kind, c[1], c[2], c[3]) :
                  kind \in {"no_crlf", "not_decimal", "short", "not_utf8",
                            "no_operand", "no_operand_crlf"},
                  c \in {d \in Subcommands : Len(d[2]) <= 1 /\ d[3] = <<>>}}

\* a peer connects and writes its request: the connection the listener
\* hands to the pool holds the request and whether req_handler has read it
Connect ==
    /\ channel.queue = <<>>
    /\ MayCall(1)
    /\ \E req \in Requests : channel' = [channel EXCEPT !.queue = <<[req |-> req, read |-> FALSE]>>]
    /\ UNCHANGED <<fsVars, storeVars, clock, th, run, hist, writeLog, rootVars, count,
                   workers, events>>

\* req_handler on a worker t reads the request and returns without a reply
\* or calls the engine; an unknown opcode is answered without a call
Serve ==
    \E t \in run.threads :
        /\ channel.queue # <<>>
        /\ ~Head(channel.queue).read
        /\ channel' = [channel EXCEPT !.queue = <<[Head(channel.queue) EXCEPT !.read = TRUE]>>]
        /\ LET r == ReqHandler(Head(channel.queue).req.bytes)
           IN  IF r.dropped THEN
                   /\ MayCall(t)
                   /\ hist' = Append(hist, Entry(t, "dropped", "", "", Err("CliError"), FALSE))
                   /\ UNCHANGED <<fsVars, storeVars, clock, th, run, writeLog>>
               ELSE IF r.call = "get" THEN Get(t, Text(r.key))
               ELSE IF r.call = "set" THEN SetBegin(t, Text(r.key), Text(r.val))
               ELSE IF r.call = "remove" THEN Remove(t, Text(r.key))
               ELSE
                   /\ MayCall(t)
                   /\ hist' = Append(hist, Entry(t, "other", "", "", Ok, FALSE))
                   /\ UNCHANGED <<fsVars, storeVars, clock, th, run, writeLog>>
        /\ UNCHANGED <<rootVars, count, workers, events>>

\* the reply req_handler writes for the call it made, if any
WireReply(e) == IF e.op = "dropped" THEN NoReply ELSE Reply(Opcode(e.op), e.res)

\* req_handler on a worker t returns, with or without a reply, and the
\* stream is dropped
Close ==
    \E t \in run.threads :
        /\ channel.queue # <<>>
        /\ Head(channel.queue).read
        /\ th[t].pc = "idle"
        /\ channel' = [channel EXCEPT !.queue = <<>>]
        /\ UNCHANGED <<fsVars, storeVars, clock, th, run, hist, writeLog, rootVars, count,
                       workers, events>>

\* start_server with the bitcask engine and one worker, on a fresh root or
\* on the root of an earlier run, which left in 1.db one record that fills
\* the segment up to the threshold of compaction
InitWire ==
    /\ \E recs \in {<<>>, <<LogEntry("k1", "big", 1)>>} :
           LET o == IF recs = <<>> THEN Open(NoDir, EmptyMap, <<>>)
                    ELSE Open([EmptyDir EXCEPT !.files = Put(EmptyMap, 1, 1)],
                              Put(EmptyMap, 1, recs), <<1>>)
           IN  /\ logs = o.logs
               /\ inodes = o.inodes
               /\ mem_index = o.mem_index
               /\ log_writer = o.log_writer
               /\ log_readers = o.log_readers
               /\ current_log_id = o.current_log_id
               /\ clock = Len(recs)
    /\ sled_store = FALSE
    /\ engine = "bitcask"
    /\ compacted = NoDir
    /\ run = [threads |-> {1}, maxOps |-> MaxOpsWire, quota |-> <<MaxOpsWire, 0>>,
              keys |-> Keys, values |-> Values]
    /\ th = [t \in AllThreads |-> IdleTh]
    /\ hist = <<>>
    /\ writeLog = <<>>
    /\ NoPool

\* the server and its peers: connections one at a time, the steps of the
\* engine call of the handler, and files put beside the segments
SpecWire ==
    /\ InitWire
    /\ [][\/ Connect
          \/ Serve
          \/ DoSetWrite
          \/ DoCmCheck
          \/ DoCmOpen
          \/ DoCmKey
          \/ DoCmWrite
          \/ DoCmCommit
          \/ Close
          \/ PutOther]_vars

----------------------------------------------------------------------------
(* Reading the history *)

AllIdle == \A t \in run.threads : th[t].pc = "idle"

IsWrite(h) == h.op = "set" \/ h.op = "remove"

\* no write to key k and no reopen among the calls strictly between i and j
Quiet(k, i, j) ==
    \A m \in (i + 1)..(j - 1) :
        /\ hist[m].op # "open"
        /\ ~(IsWrite(hist[m]) /\ hist[m].key = k)

NoReopen == \A i \in 1..Len(hist) : hist[i].op # "open"

\* the plain key-to-value map after the first n calls of the history
RECURSIVE LogicalMap(_)
LogicalMap(n) ==
    IF n = 0 THEN [k \in Keys |-> None]
    ELSE LET h == hist[n]
             m == LogicalMap(n - 1)
         IN  IF h.op = "set" THEN [m EXCEPT ![h.key] = Some(h.val)]
             ELSE IF h.op = "remove" THEN [m EXCEPT ![h.key] = None]
             ELSE m

\* the byte offset of the i-th record of a file
OffsetOf(c, i) == FileLen(SubSeq(c, 1, i - 1))

\* every record of the logs directory: segment id, position, byte offset
LogRecords ==
    {[id |-> id, i |-> i] :
        id \in DOMAIN logs.files, i \in 1..MaxOps + 2} \cap
    {r \in [id : DOMAIN logs.files, i : 1..MaxOps + 2] :
        r.i <= Len(inodes[logs.files[r.id]])}

RecordAt(r) == inodes[logs.files[r.id]][r.i]

----------------------------------------------------------------------------
(* C1 *)

\* C1: round trip. In a run of one caller, when set(k,v) has returned
\* success and the next call on k is a get, with no write to k and no
\* reopen in between, that get returns Some(v), for every key and value.
C1_RoundTrip ==
    \A i \in 1..Len(hist), j \in 1..Len(hist) :
        (/\ i < j
         /\ hist[i].op = "set" /\ hist[i].res = Ok
         /\ hist[j].op = "get" /\ hist[j].key = hist[i].key
         /\ Quiet(hist[i].key, i, j))
        => hist[j].res = Some(hist[i].val)

----------------------------------------------------------------------------
(* C2 *)

\* C2: durability across reopen. Dropping the engine and opening the same
\* root again gives, for every key, the get result it had just before.
C2_DurableReopen ==
    \A i \in 1..Len(hist) :
        (hist[i].op = "open" /\ hist[i].res = Ok /\ hist[i].from = "bitcask")
        => hist[i].after = hist[i].before

----------------------------------------------------------------------------
(* C3 *)

\* C3: compaction preserves state. After a sequence of set and remove calls
\* of one caller during which a compaction ran, get(k) is the value of the
\* last set(k,_) not followed by remove(k), and None otherwise.
C3_CompactionPreserves ==
    (/\ AllIdle
     /\ NoReopen
     /\ \E i \in 1..Len(hist) : hist[i].cm)
    => View(logs, inodes, mem_index, log_readers) = LogicalMap(Len(hist))

----------------------------------------------------------------------------
(* C4 *)

\* C4: index correctness (I1). For every key of the index, the record at
\* (log_id, log_pointer) in the logs directory has that key and a value
\* other than the tombstone marker.
C4_IndexCorrect ==
    \A k \in DOMAIN mem_index :
        /\ logs.exists
        /\ mem_index[k].log_id \in DOMAIN logs.files
        /\ LET r == ReadAt(inodes[logs.files[mem_index[k].log_id]],
                           mem_index[k].log_pointer)
           IN  r.ok /\ r.e.key = k /\ r.e.val # TOMBSTONE

----------------------------------------------------------------------------
(* C5 *)

JustOpened ==
    /\ Len(hist) > 0
    /\ hist[Len(hist)].op = "open" /\ hist[Len(hist)].res = Ok
    /\ AllIdle

\* C5: recency (I2) of the index built by open. The entry of a key points
\* at the record with the greatest timestamp among all records of the key
\* in all segments; a key whose tombstone is newer than every value record
\* of the key is not in the index.
C5_Recency ==
    JustOpened =>
        \A k \in Keys :
            LET recs == {r \in LogRecords : RecordAt(r).key = k}
                vals == {r \in recs : RecordAt(r).val # TOMBSTONE}
                tombs == recs \ vals
            IN  /\ k \in DOMAIN mem_index =>
                    \E r \in recs :
                        /\ r.id = mem_index[k].log_id
                        /\ OffsetOf(inodes[logs.files[r.id]], r.i) = mem_index[k].log_pointer
                        /\ \A q \in recs : RecordAt(q).timestamp <= RecordAt(r).timestamp
                /\ (\E d \in tombs : \A q \in vals :
                        RecordAt(q).timestamp < RecordAt(d).timestamp)
                   => k \notin DOMAIN mem_index

----------------------------------------------------------------------------
(* C9 *)

\* hist[i] is set(k,_) and hist[j] the remove(k) that follows it
SetThenRemove(k, i, j) ==
    /\ i < j
    /\ hist[i].op = "set" /\ hist[i].key = k
    /\ hist[j].op = "remove" /\ hist[j].key = k
    /\ Quiet(k, i, j)

\* C9: delete. In a run of one caller, after set(k,v) then remove(k), a
\* get(k) returns None and a second remove(k) returns KeyNotFound.
C9_Delete ==
    \A i \in 1..Len(hist), j \in 1..Len(hist), m \in 1..Len(hist) :
        (/\ SetThenRemove(hist[i].key, i, j)
         /\ j < m
         /\ hist[m].key = hist[i].key
         /\ Quiet(hist[i].key, j, m))
        => /\ hist[m].op = "get" => hist[m].res = None
           /\ hist[m].op = "remove" => hist[m].res = Err("KeyNotFoundError")

\* set, remove, get and a second remove of one key have all returned
C9_Witness ==
    /\ Len(hist) = 4
    /\ SetThenRemove("k1", 1, 2)
    /\ hist[2].res = Ok
    /\ hist[3].op = "get" /\ hist[3].key = "k1" /\ hist[3].res = None
    /\ hist[4].op = "remove" /\ hist[4].key = "k1"
    /\ hist[4].res = Err("KeyNotFoundError")

----------------------------------------------------------------------------
(* C10 *)

\* C10: last writer wins. In a run of one caller, after successful sets on
\* a key k of which set(k,v2) is the last, get(k) returns Some(v2), however
\* many sets on k or on other keys came before.
C10_LastWriterWins ==
    \A i \in 1..Len(hist), j \in 1..Len(hist), m \in 1..Len(hist) :
        (/\ i < j /\ j < m
         /\ hist[i].op = "set" /\ hist[i].res = Ok
         /\ hist[j].op = "set" /\ hist[j].res = Ok /\ hist[j].key = hist[i].key
         /\ Quiet(hist[i].key, i, j)
         /\ hist[m].op = "get" /\ hist[m].key = hist[i].key
         /\ Quiet(hist[i].key, j, m))
        => hist[m].res = Some(hist[j].val)

----------------------------------------------------------------------------
(* C6, C7, C8: two threads *)

\* a set or remove of key k has begun and not yet returned
InFlight(k) == \E t \in run.threads : th[t].pc # "idle" /\ th[t].key = k

\* the completed writes to key k
WritesOf(k) == {i \in 1..Len(hist) : IsWrite(hist[i]) /\ hist[i].key = k}

\* every key is written by one thread only
DisjointWriters ==
    /\ \A i \in 1..Len(hist), j \in 1..Len(hist) :
           (IsWrite(hist[i]) /\ IsWrite(hist[j]) /\ hist[i].key = hist[j].key)
           => hist[i].t = hist[j].t
    /\ \A i \in 1..Len(hist), t \in run.threads :
           (IsWrite(hist[i]) /\ th[t].pc # "idle" /\ th[t].key = hist[i].key)
           => hist[i].t = t
    /\ \A t \in run.threads, u \in run.threads :
           (t # u /\ th[t].pc # "idle" /\ th[u].pc # "idle") => th[t].key # th[u].key

\* the call that has just returned is a get
LastIsGet == Len(hist) > 0 /\ hist[Len(hist)].op = "get"

\* C6: concurrent safety on disjoint keys. Threads set pairwise disjoint
\* keys (compaction may trigger), no key is removed; a get(k) that starts
\* after set(k,v) has returned success, with no other set of k begun,
\* returns Some(v).
C6_DisjointKeys ==
    (/\ LastIsGet
     /\ NoReopen
     /\ DisjointWriters
     /\ \A i \in 1..Len(hist) : hist[i].op # "remove"
     /\ \A t \in run.threads : th[t].op # "remove"
     /\ ~InFlight(hist[Len(hist)].key)
     /\ WritesOf(hist[Len(hist)].key) # {}
     /\ hist[MaxOf(WritesOf(hist[Len(hist)].key))].res = Ok)
    => hist[Len(hist)].res = Some(hist[MaxOf(WritesOf(hist[Len(hist)].key))].val)

RECURSIVE LastWritten(_, _)
\* what the last write to k under the mutex, among the first n, left for get
LastWritten(k, n) ==
    IF n = 0 THEN None
    ELSE IF writeLog[n].key = k THEN
        IF writeLog[n].val = TOMBSTONE THEN None ELSE Some(writeLog[n].val)
    ELSE LastWritten(k, n - 1)

\* C7: single-key linearizability. A get(k) that begins after the writes
\* to k have returned observes the write to k that took the mutex last,
\* whatever other threads and compaction do in between.
C7_Linearizable ==
    (/\ LastIsGet
     /\ NoReopen
     /\ ~InFlight(hist[Len(hist)].key)
     /\ WritesOf(hist[Len(hist)].key) # {}
     /\ \A i \in WritesOf(hist[Len(hist)].key) :
            hist[i].res = Ok \/ hist[i].res = Err("KeyNotFoundError"))
    => hist[Len(hist)].res = LastWritten(hist[Len(hist)].key, Len(writeLog))

\* C8: the timestamps of the records of set and remove follow the order in
\* which the writes took the mutex; so after sets only, a reopen gives
\* every key the value of the set that took the mutex last.
C8_TimestampOrder ==
    /\ \A i \in 1..Len(writeLog), j \in 1..Len(writeLog) :
           i < j => writeLog[i].timestamp <= writeLog[j].timestamp
    /\ (/\ JustOpened
        /\ \A i \in 1..(Len(hist) - 1) : hist[i].op = "set" /\ hist[i].res = Ok /\ ~hist[i].cm)
       => \A k \in Keys : hist[Len(hist)].after[k] = LastWritten(k, Len(writeLog))

----------------------------------------------------------------------------
(* C11 *)

\* C11: backend exclusivity. BitcaskEngine::open on a root that holds the
\* sled directory fails, SledEngine::open on a root that holds the bitcask
\* logs directory fails, and the root never holds both directories.
C11_BackendExclusive ==
    /\ \A i \in 1..Len(hist) :
           /\ (hist[i].op = "open" /\ hist[i].root.sled) => hist[i].res.tag = "err"
           /\ (hist[i].op = "open_sled" /\ hist[i].root.logs) => hist[i].res.tag = "err"
    /\ ~(sled_store /\ logs.exists)

\* sled was opened on the fresh root and a bitcask open on it has failed
C11_Witness ==
    /\ Len(hist) >= 2
    /\ hist[1].op = "open_sled" /\ hist[1].res = Ok
    /\ hist[Len(hist)].op = "open" /\ hist[Len(hist)].root.sled
    /\ hist[Len(hist)].res = Err("CliError")
    /\ sled_store /\ ~logs.exists

\* a sled open on a root that holds segments written by bitcask has failed
C11_WitnessSled ==
    /\ Len(hist) >= 3
    /\ hist[Len(hist)].op = "open_sled" /\ hist[Len(hist)].root.logs
    /\ hist[Len(hist)].res = Err("CliError")
    /\ ~sled_store /\ logs.exists

----------------------------------------------------------------------------
(* C12 *)

\* C12: segment monotonicity (I5). While the bitcask engine is held, the
\* active segment id is at least the id of every file of the logs
\* directory, right after open it is the greatest of them, and the writer
\* that set and remove append through is the file with that id.
C12_SegmentMonotonic ==
    engine = "bitcask" =>
        /\ logs.exists => \A id \in DOMAIN logs.files : id <= current_log_id
        /\ JustOpened => current_log_id = MaxOf(DOMAIN logs.files)
        /\ log_writer # 0 =>
               /\ logs.exists
               /\ current_log_id \in DOMAIN logs.files
               /\ logs.files[current_log_id] = log_writer

----------------------------------------------------------------------------
(* C13 *)

\* the complete records of key k in the files of the logs directory
RecordsOf(k) ==
    IF ~logs.exists THEN {}
    ELSE UNION {{inodes[logs.files[id]][i] : i \in 1..Len(inodes[logs.files[id]])} :
                    id \in DOMAIN logs.files} \cap
         {e \in UNION {Range(inodes[f]) : f \in DOMAIN inodes} : ~IsTorn(e) /\ e.key = k}

\* the record of the successful write h is in the logs directory: the
\* value of a set; for a remove the tombstone or, once compacted, no record
\* of the key at all
OnDisk(h) ==
    /\ logs.exists
    /\ IF h.op = "set" THEN \E e \in RecordsOf(h.key) : e.val = h.val
       ELSE \/ \E e \in RecordsOf(h.key) : e.val = TOMBSTONE
            \/ RecordsOf(h.key) = {}

\* the write h is the last write to its key that took the mutex
Latest(h) ==
    LastWritten(h.key, Len(writeLog)) =
        IF h.op = "set" /\ h.val # TOMBSTONE THEN Some(h.val) ELSE None

\* C13: write durability (I3). At the moment a set or remove returns
\* success, its record is in a segment file of the live logs directory
\* (as appended, or as rewritten by compaction), unless a later write to
\* the key has replaced it.
C13_WriteDurable ==
    [][(/\ Len(hist') = Len(hist) + 1
        /\ IsWrite(hist'[Len(hist')])
        /\ hist'[Len(hist')].res = Ok)
       => \A h \in {hist'[Len(hist')]} : (Latest(h) => OnDisk(h))']_vars

----------------------------------------------------------------------------
(* C14 *)

\* C14: compaction crash recoverability. After a crash inside the commit
\* of compaction, between the removal of the logs directory and the rename
\* of the staging directory, the next open succeeds and get returns for
\* every key what it returned before the crash.
C14_CrashRecoverable ==
    \A i \in 2..Len(hist) :
        (hist[i].op = "open" /\ hist[i - 1].op = "crash_commit")
        => /\ hist[i].res = Ok
           /\ hist[i].after = hist[i - 1].before

----------------------------------------------------------------------------
(* C20 *)

NotTorn(e) == ~IsTorn(e)

\* every incomplete record of the logs directory is the last of its file
TornAtTail ==
    \A id \in DOMAIN logs.files :
        \A i \in 1..(Len(inodes[logs.files[id]]) - 1) : NotTorn(inodes[logs.files[id]][i])

\* the files with their incomplete records cut off
CompleteOnly == [f \in DOMAIN inodes |-> SelectSeq(inodes[f], NotTorn)]

\* the open that has just returned came right after a crash inside an append
OpenedAfterTorn ==
    /\ Len(hist) >= 2
    /\ hist[Len(hist)].op = "open"
    /\ hist[Len(hist) - 1].op = "crash_append"

\* C20: truncated-tail tolerance. When the last record of a segment is
\* incomplete after a crash inside an append, open succeeds and builds the
\* index that the complete records alone give.
C20_TruncatedTail ==
    (OpenedAfterTorn /\ TornAtTail)
    => /\ hist[Len(hist)].res = Ok
       /\ engine = "bitcask"
       /\ mem_index = Replay(EmptyMap, logs.files, CompleteOnly, hist[Len(hist)].order)

\* an open after a crash that cut short the second record of key k1: the
\* index points at the first
C20_Witness ==
    /\ OpenedAfterTorn
    /\ TornAtTail
    /\ Len(inodes[logs.files[1]]) = 2
    /\ inodes[logs.files[1]][1] = LogEntry("k1", "a", 1)
    /\ IsTorn(inodes[logs.files[1]][2])
    /\ inodes[logs.files[1]][2].key = "k1"
    /\ "k1" \in DOMAIN mem_index
    /\ mem_index["k1"] = ValueMetadata(0, 1, 1)

----------------------------------------------------------------------------
(* C19 *)

\* C19: remove of an absent key is a pure error. A remove(k) called while
\* k is not in the index returns KeyNotFound and leaves the segment files,
\* the index, the writer, the readers and the active segment id unchanged.
C19_RemoveAbsent ==
    [][(Len(hist') = Len(hist) + 1) =>
           \A h \in {hist'[Len(hist')]} :
               (/\ h.op = "remove"
                /\ th[h.t].pc = "idle"
                /\ h.key \notin DOMAIN mem_index)
               => /\ h.res = Err("KeyNotFoundError")
                  /\ UNCHANGED <<fsVars, storeVars, writeLog>>]_vars

\* a remove of an absent key has returned KeyNotFound while the engine,
\* after a compaction, holds no writer
C19_Witness ==
    /\ Len(hist) >= 2
    /\ hist[Len(hist) - 1].op = "set" /\ hist[Len(hist) - 1].cm
    /\ hist[Len(hist)].op = "remove"
    /\ hist[Len(hist)].res = Err("KeyNotFoundError")
    /\ hist[Len(hist)].key \notin DOMAIN mem_index
    /\ log_writer = 0

----------------------------------------------------------------------------
(* C18 *)

RECURSIVE Stored(_)
\* the key-value map a client knows from the replies to its first n
\* requests: SET answered "set successful" stores, RM answered "Success"
\* deletes
Stored(n) ==
    IF n = 0 THEN [k \in Keys |-> None]
    ELSE LET h == hist[n]
             m == Stored(n - 1)
             r == Reply(Opcode(h.op), h.res)
         IN  IF h.op = "set" /\ r = Sent("set successful") THEN [m EXCEPT ![h.key] = Some(h.val)]
             ELSE IF h.op = "remove" /\ r = Sent("Success") THEN [m EXCEPT ![h.key] = None]
             ELSE m

\* the reply the protocol prescribes for request h when the store holds m
Prescribed(h, m) ==
    IF h.op = "get" THEN
        IF m[h.key].tag = "some" THEN Sent(m[h.key].val) ELSE Sent("Key not found")
    ELSE IF h.op = "set" THEN Sent("set successful")
    ELSE IF h.op = "remove" THEN
        IF m[h.key].tag = "some" THEN Sent("Success") ELSE Sent("Key not found")
    ELSE Sent("Invalid command")

\* C18: protocol replies. With one client and no restart of the server,
\* every request is answered as prescribed: GET by the stored value or
\* "Key not found", SET by "set successful", RM by "Success" or "Key not
\* found", any other opcode by "Invalid command".
C18_ProtocolReplies ==
    NoReopen =>
        \A i \in 1..Len(hist) :
            Reply(Opcode(hist[i].op), hist[i].res) = Prescribed(hist[i], Stored(i - 1))

\* SET k1 a, GET k1, RM k1, RM k1, GET k1 answered "set successful", "a",
\* "Success", "Key not found", "Key not found"
C18_Sequence ==
    /\ Len(hist) = 5
    /\ hist[1].op = "set" /\ hist[1].val = "a"
    /\ hist[2].op = "get" /\ hist[3].op = "remove"
    /\ hist[4].op = "remove" /\ hist[5].op = "get"
    /\ [i \in 1..5 |-> Reply(Opcode(hist[i].op), hist[i].res).text] =
           <<"set successful", "a", "Success", "Key not found", "Key not found">>

----------------------------------------------------------------------------
(* C15, C16, C17: the worker pool *)

\* the positions in events of the events ev of job j
EventsOf(ev, j) == {i \in 1..Len(events) : events[i].ev = ev /\ events[i].job = j}

\* the jobs in the queue
Queued == Range(channel.queue)

\* the jobs that were enqueued
Enqueued == {events[i].job : i \in {x \in 1..Len(events) :
                                        events[x].ev = "spawn" /\ events[x].sent}}

\* C15: worker pool panic safety. Whatever number of jobs has panicked,
\* the pool created with new(N) keeps N workers that take jobs (all N wait
\* for a job when none is held), every enqueued job is either still in the
\* queue or was dequeued exactly once, no job is started twice, and at most
\* N jobs run at the same time.
C15_PanicSafe ==
    /\ Cardinality({w \in DOMAIN workers : workers[w].pc \in {"recv", "got", "run"}}) = count
    /\ channel.receivers = count
    /\ \A j \in Enqueued :
           /\ (j \in Queued) <=> (EventsOf("deq", j) = {})
           /\ Cardinality(EventsOf("deq", j)) <= 1
           /\ Cardinality(EventsOf("start", j)) <= 1
           /\ Cardinality({i \in 1..Len(channel.queue) : channel.queue[i] = j}) <= 1
    /\ Cardinality({w \in DOMAIN workers : workers[w].pc = "run"}) <= count

\* in a pool of one worker job 1 has panicked, and the worker has gone on
\* to run job 2
C15_Witness ==
    /\ count = 1
    /\ \E p \in EventsOf("start", 1) :
           /\ events[p].ret = "panic"
           /\ \E q \in EventsOf("start", 2) : p < q
    /\ workers[1] = [pc |-> "run", job |-> 2]

\* C16: spawn never fails silently. Whenever the job handed to spawn could
\* not be enqueued, the caller of spawn was given an error.
C16_SpawnReports ==
    \A i \in 1..Len(events) :
        (events[i].ev = "spawn" /\ ~events[i].sent) => events[i].ret = "err"

\* job a was handed to spawn before job b
Before(a, b) == a < b

\* C17 as amended: FIFO admission. Jobs are dequeued by the workers in the
\* order in which spawn enqueued them: when b has been dequeued, every job
\* enqueued before b was dequeued earlier.
C17_FifoDequeue ==
    \A a \in Enqueued, b \in Enqueued :
        (Before(a, b) /\ EventsOf("deq", b) # {})
        => \E i \in EventsOf("deq", a) : \A k \in EventsOf("deq", b) : i < k

\* C17: FIFO admission. Jobs are dequeued in the order enqueued, and for
\* jobs a and b with spawn(a) returned before spawn(b) was called, a starts
\* executing no later than b starts.
C17_FifoStart ==
    /\ C17_FifoDequeue
    /\ \A a \in Enqueued, b \in Enqueued :
           (Before(a, b) /\ EventsOf("start", b) # {})
           => \E i \in EventsOf("start", a) : \A k \in EventsOf("start", b) : i < k

\* two workers hold jobs 1 and 2, dequeued in that order, while job 3 waits
C17_Witness ==
    /\ count = 2
    /\ \E i \in EventsOf("deq", 1), k \in EventsOf("deq", 2) : i < k
    /\ channel.queue = <<3>>

----------------------------------------------------------------------------
(* C30 *)

\* the open that has just returned, with no call begun since, ran on a root
\* with neither the sled directory nor the bitcask logs directory
OpenedFresh ==
    /\ Len(hist) > 0
    /\ hist[Len(hist)].op = "open"
    /\ ~hist[Len(hist)].root.sled
    /\ ~hist[Len(hist)].root.logs
    /\ AllIdle

----------------------------------------------------------------------------
(* C29 *)

\* the byte length of the active segment <current_log_id>.db, 0 when there
\* is no such file
ActiveLen ==
    IF logs.exists /\ current_log_id \in DOMAIN logs.files
    THEN FileLen(inodes[logs.files[current_log_id]])
    ELSE 0

\* thread t takes the step of the compaction check
Checks(t) == th[t].pc = "cm_check" /\ th'[t].pc # "cm_check"

\* C29: compaction trigger. The check that follows a set or remove returns
\* without compacting and leaves the index, the segment files and the
\* active segment id unchanged when the active segment is smaller than
\* MAX_FILE_SIZE, and goes on to compact exactly when the active segment
\* has at least MAX_FILE_SIZE bytes.
C29_Trigger ==
    [][\A t \in run.threads :
          Checks(t) =>
              IF ActiveLen < MAX_FILE_SIZE
              THEN /\ th'[t].pc = "idle"
                   /\ UNCHANGED <<logs, inodes, mem_index, current_log_id>>
              ELSE th'[t].pc = "cm_open"]_vars

----------------------------------------------------------------------------
(* C27 *)

\* the step is the commit of a compaction
Commits == Len(hist') = Len(hist) + 1 /\ hist'[Len(hist')].cm

\* the step is an open
Opens == Len(hist') = Len(hist) + 1 /\ hist'[Len(hist')].op = "open"

\* a compaction has committed since the engine was opened
CommittedSinceOpen ==
    \E i \in 1..Len(hist) :
        hist[i].cm /\ \A j \in (i + 1)..Len(hist) : hist[j].op # "open"

\* C27: after a compaction commits, the active segment id is the last
\* compacted segment id plus one and the writer is dropped; the write that
\* re-creates the writer creates a new, initially empty segment file with
\* that id; and from the commit on, as long as the engine is held, no
\* segment other than the active one is appended to.
C27_AfterCommit ==
    [][/\ Commits =>
            /\ log_writer' = 0
            /\ logs'.exists
            /\ current_log_id' = th[hist'[Len(hist')].t].cid + 1
       /\ (CommittedSinceOpen /\ ~Opens /\ log_writer = 0 /\ log_writer' # 0) =>
            /\ current_log_id' = current_log_id
            /\ current_log_id \notin DOMAIN logs.files
            /\ logs'.exists /\ current_log_id \in DOMAIN logs'.files
            /\ logs'.files[current_log_id] = log_writer'
            /\ \A i \in 1..Len(inodes'[log_writer']) :
                   inodes'[log_writer'][i] = writeLog'[Len(writeLog')]
       /\ (CommittedSinceOpen /\ ~Opens /\ ~Commits) =>
            \A id \in DOMAIN logs.files :
                (id # current_log_id /\ id \in DOMAIN logs'.files
                    /\ logs'.files[id] = logs.files[id])
                => inodes'[logs.files[id]] = inodes[logs.files[id]]]_vars

----------------------------------------------------------------------------
(* C28 *)

\* the step is a get that returns
Gets == Len(hist') = Len(hist) + 1 /\ hist'[Len(hist')].op = "get"

\* a compaction has committed
Committed == \E i \in 1..Len(hist) : hist[i].cm

\* C28: readers after the directory swap. With one caller, every get of a
\* key of the index issued after a compaction has committed returns without
\* an error, in particular without LogReaderNotFoundError, whether the get
\* comes right after the commit or after further writes.
C28_ReadersRepopulated ==
    [][(Gets /\ Committed) =>
           \A h \in {hist'[Len(hist')]} :
               h.key \in DOMAIN mem_index => h.res.tag # "err"]_vars

\* a compaction has committed, the set after it has re-created the writer,
\* and the get after that has read the value of the compacted key from the
\* compacted segment
C28_Witness ==
    /\ Len(hist) = 3
    /\ hist[1].op = "set" /\ hist[1].cm /\ hist[1].val = "big"
    /\ hist[2].op = "set" /\ hist[2].res = Ok /\ hist[2].key # hist[1].key
    /\ hist[3].op = "get" /\ hist[3].key = hist[1].key /\ hist[3].res = Some("big")
    /\ mem_index[hist[1].key].log_id = 1
    /\ current_log_id = 2
    /\ DOMAIN log_readers.map = {1, 2}

\* right after the commit, with the readers dropped, a get has read the
\* compacted key
C28_WitnessDirect ==
    /\ Len(hist) = 2
    /\ hist[1].op = "set" /\ hist[1].cm
    /\ hist[2].op = "get" /\ hist[2].key = hist[1].key /\ hist[2].res = Some("big")
    /\ log_writer = 0
    /\ DOMAIN log_readers.map = {1}

----------------------------------------------------------------------------
(* C26 *)

\* the places (segment id, position) of the records of a directory
Places(lg, ino) ==
    UNION {{[id |-> id, i |-> i] : i \in 1..Len(ino[lg.files[id]])} : id \in DOMAIN lg.files}

\* the record at a place
RecordOf(lg, ino, r) == ino[lg.files[r.id]][r.i]

\* C26: compaction discards dead records. With one caller, right after a
\* compaction commits the logs directory holds exactly one record for each
\* key of the index, with the value get returned for the key, no tombstone
\* record and no record of any other key, and the index has the key set it
\* had before the compaction.
C26_DeadDiscarded ==
    [][Commits =>
           /\ DOMAIN mem_index' = DOMAIN mem_index
           /\ \A r \in Places(logs', inodes') :
                  /\ RecordOf(logs', inodes', r).key \in DOMAIN mem_index
                  /\ RecordOf(logs', inodes', r).val # TOMBSTONE
                  /\ Some(RecordOf(logs', inodes', r).val) =
                         GetValMetadata(logs, inodes, mem_index, log_readers,
                                        RecordOf(logs', inodes', r).key).res
           /\ \A k \in DOMAIN mem_index :
                  Cardinality({r \in Places(logs', inodes') :
                                   RecordOf(logs', inodes', r).key = k}) = 1]_vars

----------------------------------------------------------------------------
(* C25 *)

\* thread t takes the step that begins a compaction
Begins(t) == Checks(t) /\ th'[t].pc = "cm_open"

\* C25: fresh staging directory. When a compaction begins, the staging
\* directory compacted-logs exists and holds no file, whatever an earlier
\* crashed or failed compaction left in it; so right after the commit every
\* record of the logs directory is one this compaction wrote, the one the
\* new index points at for its key.
C25_FreshStaging ==
    [][/\ \A t \in run.threads : Begins(t) => compacted' = EmptyDir
       /\ Commits =>
              \A r \in Places(logs', inodes') :
                  \E k \in DOMAIN mem_index' :
                      /\ RecordOf(logs', inodes', r).key = k
                      /\ mem_index'[k].log_id = r.id
                      /\ mem_index'[k].log_pointer =
                             FileLen(SubSeq(inodes'[logs'.files[r.id]], 1, r.i - 1))]_vars

----------------------------------------------------------------------------
(* C24 *)

\* thread t is inside the part of compaction_manager that follows the key
\* snapshot
Compacting(t) == th[t].pc \in {"cm_open", "cm_key", "cm_write", "cm_commit"}

\* the keys of the snapshot thread t took
Snapshot(t) == DOMAIN th[t].updated \cup Range(th[t].keys)

\* key k of the snapshot of thread t was removed by another thread since
\* the snapshot: the remove has returned success and its tombstone is the
\* last write to k
RemovedMeanwhile(t, k) ==
    /\ k \in Snapshot(t)
    /\ LastWritten(k, Len(writeLog)) = None
    /\ \E i \in 1..Len(hist) :
           /\ hist[i].op = "remove" /\ hist[i].key = k
           /\ hist[i].res = Ok /\ hist[i].t # t

\* C24: a remove(k) that returns success while the compaction of another
\* thread is past its key snapshot stays effective: that compaction does
\* not fail with CompactionError for the key that left the index, and
\* after its commit get(k) returns None.
C24_RemoveEffective ==
    [][\A t \in run.threads, k \in Keys :
          (Compacting(t) /\ th'[t].pc = "idle" /\ RemovedMeanwhile(t, k)
              /\ Len(hist') = Len(hist) + 1)
          => /\ hist'[Len(hist')].res # Err("CompactionError")
             /\ hist'[Len(hist')].cm
                => GetValMetadata(logs', inodes', mem_index', log_readers', k).res = None]_vars

----------------------------------------------------------------------------
(* C23 *)

\* the threads whose compaction holds a writer on a file of the staging
\* directory
StagingWriters == {t \in run.threads : Compacting(t) /\ th[t].cw # 0}

\* C23: compactions are mutually exclusive in effect. At no time do two
\* executions of compaction_manager hold writers into the staging
\* directory, no commit removes the logs directory another commit has
\* installed and leaves none (the logs directory always exists), and when
\* every call has returned every key of the index is readable.
C23_Exclusive ==
    /\ Cardinality(StagingWriters) <= 1
    /\ logs.exists
    /\ AllIdle =>
           \A k \in DOMAIN mem_index :
               GetValMetadata(logs, inodes, mem_index, log_readers, k).res.tag = "some"

----------------------------------------------------------------------------
(* C22 *)

\* what get returns for every key from the engine that open builds when it
\* scans the segments in the given order
OpenView(order) ==
    LET o == Open(logs, inodes, order)
    IN  View(o.logs, o.inodes, o.mem_index, o.log_readers)

\* C22: replay is independent of the scan order. For the segment files
\* that set, remove and compaction have left when every call has returned,
\* open builds the same key-to-value mapping for every order in which it
\* may scan the segments.
C22_ScanOrderIndependent ==
    (AllIdle /\ logs.exists) =>
        \A o1 \in ScanOrders(logs), o2 \in ScanOrders(logs) : OpenView(o1) = OpenView(o2)

----------------------------------------------------------------------------
(* Files of the logs directory that are not segments *)

\* the last call was a BitcaskEngine::open on a root without a sled store
\* whose logs directory held a file that is not named <n>.db
OpenedBesideOther ==
    /\ hist # <<>>
    /\ hist[Len(hist)].op = "open"
    /\ ~hist[Len(hist)].root.sled
    /\ hist[Len(hist)].root.logs
    /\ hist[Len(hist)].root.others # {}
    /\ \A t \in run.threads : th[t].pc = "idle"

\* C21: open ignores the files of the logs directory whose names do not
\* match <n>.db: with such a file present, open still succeeds, the active
\* segment id is the greatest id among the matching files, and the index is
\* the replay of the matching segments only
C21_OtherFilesIgnored ==
    OpenedBesideOther =>
        /\ hist[Len(hist)].res = Ok
        /\ engine = "bitcask"
        /\ current_log_id = MaxOf(DOMAIN logs.files)
        /\ mem_index = Replay(EmptyMap, logs.files, inodes, hist[Len(hist)].order)

----------------------------------------------------------------------------
(* Compaction of every index key *)

\* C36: in a single-threaded sequence of set and remove calls, for every
\* key and every value, no call returns CompactionError: every key of the
\* index snapshot is found by the read path of the compaction
C36_SnapshotFound ==
    \A i \in 1..Len(hist) : hist[i].res # Err("CompactionError")

----------------------------------------------------------------------------
(* Timestamps of the index *)

\* C40: between calls, the timestamp of every index entry equals the
\* timestamp of the log record the entry points at - after set, after the
\* replay of open and after compaction
C40_IndexTimestamp ==
    (AllIdle /\ engine = "bitcask" /\ logs.exists) =>
        \A k \in DOMAIN mem_index :
            mem_index[k].log_id \in DOMAIN logs.files =>
                LET r == ReadAt(inodes[logs.files[mem_index[k].log_id]],
                                mem_index[k].log_pointer)
                IN  r.ok => r.e.timestamp = mem_index[k].timestamp

----------------------------------------------------------------------------
(* A remove that fails *)

\* this step is a remove(k) of a key of the index that returns an error
\* before its tombstone is in the active segment
RemoveFailsEarly(t, k) ==
    /\ th[t].pc = "idle"
    /\ Len(hist') = Len(hist) + 1
    /\ hist'[Len(hist')].t = t
    /\ hist'[Len(hist')].op = "remove"
    /\ hist'[Len(hist')].key = k
    /\ hist'[Len(hist')].res.tag = "err"
    /\ hist'[Len(hist')].res # Err("KeyNotFoundError")

\* C37: remove is atomic with respect to failure: when remove(k) returns an
\* error because the tombstone could not be appended, the index still holds
\* the entry of k it held before the call
C37_RemoveAtomic ==
    [][\A t \in run.threads, k \in Keys :
          RemoveFailsEarly(t, k) =>
              /\ k \in DOMAIN mem_index'
              /\ mem_index'[k] = mem_index[k]]_vars

----------------------------------------------------------------------------
(* Records of one key with equal timestamps *)

\* the place of segment id in the scan order o
PosIn(o, id) == CHOOSE p \in 1..Len(o) : o[p] = id

\* record q is scanned before record r when open scans in the order o
ScannedBefore(o, q, r) ==
    \/ PosIn(o, q.id) < PosIn(o, r.id)
    \/ q.id = r.id /\ q.i < r.i

\* r is the record of its key scanned last, no record of the key scanned
\* before it is newer, and one of them has the timestamp of r
WinsTie(o, r) ==
    LET same == {q \in LogRecords \ {r} : RecordAt(q).key = RecordAt(r).key}
    IN  /\ \A q \in same : ScannedBefore(o, q, r)
        /\ \A q \in same : RecordAt(q).timestamp <= RecordAt(r).timestamp
        /\ \E q \in same : RecordAt(q).timestamp = RecordAt(r).timestamp

\* the later-scanned of two records of equal timestamps is kept: a value
\* record becomes the index entry, a tombstone deletes the entry
C33_LaterScannedKept ==
    JustOpened =>
        \A r \in LogRecords :
            WinsTie(hist[Len(hist)].order, r) =>
                IF RecordAt(r).val = TOMBSTONE
                THEN RecordAt(r).key \notin DOMAIN mem_index
                ELSE /\ RecordAt(r).key \in DOMAIN mem_index
                     /\ mem_index[RecordAt(r).key] =
                            ValueMetadata(OffsetOf(inodes[logs.files[r.id]], r.i), r.id,
                                          RecordAt(r).timestamp)

\* every record of key k has the same timestamp, and there are two or more
AllTied(k) ==
    LET recs == {r \in LogRecords : RecordAt(r).key = k}
    IN  /\ Cardinality(recs) >= 2
        /\ \A q \in recs, r \in recs : RecordAt(q).timestamp = RecordAt(r).timestamp

----------------------------------------------------------------------------
(* A record that does not decode in the middle of a segment *)

\* some segment holds a record that does not decode and, after it, a
\* complete record
CorruptMidSegment ==
    \E id \in DOMAIN logs.files :
        LET c == inodes[logs.files[id]]
        IN  \E i \in 1..Len(c), j \in 1..Len(c) :
                i < j /\ ~Decoded(c[i]) /\ Decoded(c[j])

\* the last call was an open of the bitcask engine on the logs directory as
\* it is now
OpenedLast ==
    /\ hist # <<>>
    /\ hist[Len(hist)].op = "open"
    /\ AllIdle
    /\ logs.exists

\* C31: a decode error in the middle of a segment (a record that does not
\* decode, followed by complete records) is fatal for the replay: open
\* reports an error instead of taking the record for the end of the segment
\* and dropping the records after it
C31_MidStreamFatal ==
    (OpenedLast /\ CorruptMidSegment) => hist[Len(hist)].res.tag = "err"

----------------------------------------------------------------------------
(* Writes after the recovery from a truncated tail *)

\* the process neither died nor reopened the store strictly between the
\* calls i and j
NoRestart(i, j) ==
    \A n \in (i + 1)..(j - 1) : hist[n].op \notin {"open", "crash_append"}

\* call j is a successful set made by the engine that the open i built
\* right after a crash inside an append, and the last call is the next
\* open, with no other write to the key in between
SetAfterRecovery(i, j) ==
    /\ i > 1 /\ i < j /\ j < Len(hist)
    /\ hist[i - 1].op = "crash_append"
    /\ hist[i].op = "open" /\ hist[i].res = Ok
    /\ hist[j].op = "set" /\ hist[j].res = Ok
    /\ NoRestart(i, j)
    /\ NoRestart(j, Len(hist))
    /\ Quiet(hist[j].key, j, Len(hist))
    /\ hist[Len(hist)].op = "open"

\* C32: writes made after the recovery from a truncated tail are durable.
\* When open succeeded on a store whose active segment ends in a partial
\* record, a set(k,v) that then returns success is still there after the
\* next close and reopen: get(k) returns Some(v)
C32_DurableAfterRecovery ==
    \A i \in 1..Len(hist), j \in 1..Len(hist) :
        SetAfterRecovery(i, j) =>
            /\ hist[Len(hist)].res = Ok
            /\ hist[Len(hist)].after[hist[j].key] = Some(hist[j].val)

----------------------------------------------------------------------------
(* Every accepted job runs *)

\* C38: every job accepted by spawn on a pool of N >= 1 workers is
\* eventually executed, exactly once, when every started job ends (by a
\* return or a panic) and the scheduler is fair; also the jobs queued
\* while other jobs panic
\* (an accepted job stays accepted and a started job stays started, and a
\* behaviour has at most MaxJobs jobs: "each accepted job is eventually
\* started" is "from some point on every accepted job has been started")
C38_EventuallyExecuted ==
    /\ [](count >= 1 => \A j \in Enqueued : Cardinality(EventsOf("start", j)) <= 1)
    /\ <>[](count >= 1 => \A j \in Enqueued : Cardinality(EventsOf("start", j)) = 1)

\* in a pool of two workers three jobs were accepted before any of them
\* was started; the first two have panicked and the third has been started
C38_Witness ==
    /\ count = 2
    /\ Len(events) >= 3
    /\ \A i \in 1..3 : events[i].ev = "spawn" /\ events[i].sent
    /\ \A j \in {1, 2} : \E p \in EventsOf("start", j) : events[p].ret = "panic"
    /\ EventsOf("start", 3) # {}

----------------------------------------------------------------------------
(* Deadlock freedom of the store mutex *)

\* no thread is at a lock() of the store with a guard of it alive, a thread
\* outside every call has none, and at most one guard is alive
GuardsSound ==
    /\ \A t \in run.threads :
           /\ (th[t].pc \in LockPoints) => ~th[t].bitcask_store
           /\ (th[t].pc = "idle") => ~th[t].bitcask_store
    /\ Cardinality({t \in run.threads : th[t].bitcask_store}) <= 1

\* C39: deadlock freedom of the engine mutex. In every interleaving of
\* set, get, remove and compaction across threads, no thread calls lock()
\* on the store while it has a guard of it, a thread that has returned
\* (with success or an error) has let go of the mutex, and every engine
\* call eventually returns
C39_DeadlockFree ==
    /\ []GuardsSound
    /\ \A t \in AllThreads : (th[t].pc # "idle") ~> (th[t].pc = "idle")

\* thread 1, in the loop of its compaction with one key copied, waits for
\* the mutex that thread 2 holds in the commit of its own compaction
C39_Witness ==
    /\ th[1].pc = "gvm_lock" /\ th[1].from = "cm" /\ th[1].op = "set"
    /\ th[1].left = 1
    /\ th[2].pc = "commit_body" /\ th[2].bitcask_store /\ th[2].op = "remove"

----------------------------------------------------------------------------
(* C35: request framing round-trips: for every opcode, key and value, the
   request the client builds is parsed by the server into the same opcode,
   key and value, so that the engine is called with exactly the key and the
   value the client supplied. *)

\* the connection being served carries a request of the client
ServingClient ==
    /\ channel.queue # <<>>
    /\ Head(channel.queue).read
    /\ Head(channel.queue).req.kind = "client"

\* the call req_handler made for the connection being served: the one in
\* progress, or the one that returned last
CallMade == IF th[1].pc # "idle" THEN th[1] ELSE hist[Len(hist)]

C35_RoundTrip ==
    ServingClient =>
        LET req == Head(channel.queue).req
        IN  /\ CallMade.op = req.op
            /\ CallMade.key = Text(req.key)
            /\ req.op = "set" => CallMade.val = Text(req.val)

----------------------------------------------------------------------------
(* C34: handler errors are contained per connection: if a request is
   malformed (length line without CRLF or not a decimal number, fewer bytes
   than announced, non-UTF-8 payload, missing operand) or the engine returns
   an I/O error, no reply is written, a parse failure leaves the engine
   state unchanged, and the worker returns from the job and goes on to serve
   later connections. *)

\* req_handler reads a malformed request in this step
ReadsMalformed ==
    /\ channel.queue # <<>>
    /\ ~Head(channel.queue).read
    /\ Head(channel.queue).req.kind # "client"
    /\ channel'.queue # <<>>
    /\ Head(channel'.queue).read

\* the handler gave up: no call of the engine, no reply, the worker free
GaveUp ==
    /\ UNCHANGED <<fsVars, storeVars>>
    /\ th'[1].pc = "idle"
    /\ Len(hist') = Len(hist) + 1
    /\ ~WireReply(hist'[Len(hist')]).sent

\* no reply is written for a call of the engine that failed with anything
\* but the absence of the key
ErrorsSilent ==
    \A i \in 1..Len(hist) :
        (hist[i].res.tag = "err" /\ hist[i].res # Err("KeyNotFoundError"))
            => ~WireReply(hist[i]).sent

C34_ErrorsContained ==
    /\ [][ReadsMalformed => GaveUp]_vars
    /\ []ErrorsSilent

====
